---- MODULE Spec2Model ----
(***************************************************************************)
(* A model of use_rabbitmq.RabbitMQStore (src/src/use_rabbitmq/__init__.py)*)
(* with its ConnectionPool and ChannelManager: one store, shared by the    *)
(* threads of Threads, talking to a broker whose calls may fail.           *)
(*                                                                         *)
(* Objects of the amqpstorm library (connections, channels) are numbered;  *)
(* 0 stands for None.  A number is reused only when no variable refers to  *)
(* the object any more, as object identity in Python.                      *)
(***************************************************************************)
EXTENDS Integers, Sequences, FiniteSets, TLC

\* ------------------------------------------------------------------ bounds
Threads == {"t1", "t2", "t3"}   \* threads sharing the store
Workers == {"t1", "t2"}         \* threads of the specifications with more than reads
MaxConnId == 3          \* connection objects alive at one time
MaxChanId == 6          \* channel objects alive at one time
MaxCmId == 3            \* ChannelManager objects alive at one time
MaxChannels == 3        \* the store's max_channels constructor argument
ChannelMax == 4         \* channels the broker allows on one connection
MaxFaults == 1          \* failures the broker injects on established objects
AttemptsCap == 3        \* the attempts counter is not followed beyond this
MaxAttempts == 7        \* the largest finite MAX_CONNECTION_ATTEMPTS tried
SleepsCap == 6          \* the sleeps of one consume loop are not counted beyond this

ChannelNames == {"publisher", "consumer"}   \* names given to channels

\* ------------------------------------------------------- program constants
MAX_SEND_ATTEMPTS == 6
MAX_CONNECTION_DELAY == 32
RECONNECTION_DELAY == 1
Infinity == 1000000
MAX_CONNECTION_ATTEMPTS == Infinity
PoolMaxConnections == 10

ConnIds == 1..MaxConnId
ChanIds == 1..MaxChanId
None == 0
NoThread == "none"
NoCM == [id |-> 0, connection |-> 0, _channels |-> <<>>, _channel_count |-> 0]

Min(a, b) == IF a < b THEN a ELSE b
SeqSet(s) == {s[i] : i \in 1..Len(s)}
Smallest(S) == CHOOSE x \in S : \A y \in S : x <= y

VARIABLES
  cfg,                \* use_connection_pool, use_channel_manager, MAX_CONNECTION_ATTEMPTS
  named,              \* the channels registered under a name
  ConnectionPool,     \* the class ConnectionPool: _instance, _lock, _initialized
  shutdownFlag,       \* self.__shutdown
  lock,               \* owner of self._lock
  _connection,        \* self._connection
  _channel,           \* self._channel
  _channel_manager,   \* self._channel_manager
  _pools,             \* ConnectionPool._pools[key]: the idle queue of the store's key
  _connection_counts, \* ConnectionPool._connection_counts[key]
  connOpen,           \* connections whose is_open is True
  chanOpen,           \* channels whose is_open is True
  chanConn,           \* the connection each channel was opened on
  consumers,          \* channels with a registered consumer callback
  faults,             \* failures the broker has injected so far
  lastFault,          \* the exception of the last injected failure
  hist,               \* what has happened so far, for the properties
  pc,                 \* position of each thread
  loc                 \* local variables of each thread

vars == <<cfg, named, ConnectionPool, shutdownFlag, lock, _connection, _channel, _channel_manager,
          _pools, _connection_counts, connOpen, chanOpen, chanConn, consumers,
          faults, lastFault, hist, pc, loc>>

storeVars == <<shutdownFlag, _connection, _channel, _channel_manager>>
brokerVars == <<connOpen, chanOpen, chanConn, consumers>>
poolVars == <<_pools, _connection_counts>>

NoLocals == [op |-> "none", caller |-> "none", ret |-> "idle",
             attempts |-> 0, delay |-> 0, sattempts |-> 0, cdelay |-> 0,
             res |-> 0, ch |-> 0, cm |-> 0, exc |-> "none", raised |-> "none",
             tries |-> 0, sleeps |-> 0, stopSeen |-> FALSE,
             returned |-> FALSE, afterShut |-> FALSE, lastExc |-> "none",
             made |-> 0, naps |-> 0, inst |-> 0, first |-> FALSE,
             poolExc |-> "none", params |-> 0, key |-> "", code |-> 0,
             active |-> 0, name |-> "", prev |-> 0]

\* ------------------------------------------------------ object identities
UsedConns == connOpen \cup {_connection, _channel_manager.connection}
             \cup SeqSet(_pools)
             \cup {loc[t].res : t \in Threads}
             \cup {chanConn[c] : c \in chanOpen}
FreeConns == ConnIds \ UsedConns

UsedChans == chanOpen \cup {_channel} \cup SeqSet(_channel_manager._channels)
             \cup {named[n] : n \in DOMAIN named}
             \cup {loc[t].ch : t \in Threads}
             \cup {loc[t].prev : t \in Threads}
FreeChans == ChanIds \ UsedChans

UsedCms == {_channel_manager.id} \cup {loc[t].cm : t \in Threads}
FreeCms == (1..MaxCmId) \ UsedCms

\* ------------------------------------------------- the store's world
\* The objects the store's methods read and write, as one value, so that
\* the methods' bodies compose.
World == [conn |-> _connection, chan |-> _channel, cm |-> _channel_manager,
          pools |-> _pools, counts |-> _connection_counts,
          connOpen |-> connOpen, chanOpen |-> chanOpen, chanConn |-> chanConn,
          consumers |-> consumers]

Install(w) ==
  /\ _connection' = w.conn
  /\ _channel' = w.chan
  /\ _channel_manager' = w.cm
  /\ _pools' = w.pools
  /\ _connection_counts' = w.counts
  /\ connOpen' = w.connOpen
  /\ chanOpen' = w.chanOpen
  /\ chanConn' = w.chanConn
  /\ consumers' = w.consumers

\* ------------------------------------------------------------- the broker
\* channel.close(): the channel is closed and its consumers are gone.
CloseChannel(w, h) ==
  [w EXCEPT !.chanOpen = @ \ {h}, !.consumers = @ \ {h}]

\* connection.close(), or the broker dropping the connection: the connection
\* and every channel opened on it are closed.
CloseConnection(w, c) ==
  [w EXCEPT !.connOpen = @ \ {c},
            !.chanOpen = {h \in @ : w.chanConn[h] # c},
            !.consumers = {h \in @ : w.chanConn[h] # c}]

\* channel.stop_consuming(): the channel's consumers are cancelled.
StopConsuming(w, h) == [w EXCEPT !.consumers = @ \ {h}]

\* amqpstorm.Connection(**params) succeeding with the new object c.
OpenConnection(w, c) == [w EXCEPT !.connOpen = @ \cup {c}]

\* connection.channel() succeeding with the new object h on connection c.
OpenChannel(w, c, h) ==
  [w EXCEPT !.chanOpen = @ \cup {h}, !.chanConn = [@ EXCEPT ![h] = c]]

\* connection.channel() can succeed: the connection is open and has room.
CanOpenChannel(w, c) ==
  /\ c \in w.connOpen
  /\ Cardinality({h \in w.chanOpen : w.chanConn[h] = c}) < ChannelMax

\* ------------------------------------------------------- ChannelManager
RECURSIVE CloseAll(_, _)
CloseAll(w, q) ==
  IF q = <<>> THEN w ELSE CloseAll(CloseChannel(w, Head(q)), Tail(q))

\* ChannelManager.cleanup() (lines 242-254): every idle channel is taken
\* out and closed if open.  It is counted out next, unless its close() has
\* raised: the handler of line 253 goes on to the next channel.  failed are
\* the channels whose close() raises.
Cleaned(w, failed) ==
  LET q == w.cm._channels
      counted == {i \in 1..Len(q) : q[i] \notin failed \cap w.chanOpen}
  IN [CloseAll(w, q) EXCEPT
        !.cm._channel_count = @ - Cardinality(counted),
        !.cm._channels = <<>>]

\* ChannelManager.cleanup() when no close() raises.
cleanup(w) == Cleaned(w, {})

\* ------------------------------------------------------- ConnectionPool
\* (a return that takes a closed connection without counting it out)
return_connection_uncounted(w, c) ==
  IF c \notin w.connOpen
    THEN w
    ELSE IF Len(w.pools) < PoolMaxConnections
      THEN [w EXCEPT !.pools = Append(@, c)]
      ELSE [CloseConnection(w, c) EXCEPT !.counts = @ - 1]

\* ConnectionPool.return_connection(connection, parameters)
return_connection(w, c) ==
  IF c \notin w.connOpen
    THEN [w EXCEPT !.counts = @ - 1]
    ELSE IF Len(w.pools) < PoolMaxConnections
      THEN [w EXCEPT !.pools = Append(@, c)]
      ELSE [CloseConnection(w, c) EXCEPT !.counts = @ - 1]

\* The while loop of ConnectionPool.get_connection: idle connections are
\* taken out until an open one is found; closed ones are counted out.
RECURSIVE PoolScan(_, _, _)
PoolScan(q, n, open) ==
  IF q = <<>> THEN [conn |-> None, q |-> q, n |-> n]
  ELSE IF Head(q) \in open THEN [conn |-> Head(q), q |-> Tail(q), n |-> n]
  ELSE PoolScan(Tail(q), n - 1, open)

\* ------------------------------------------------------- RabbitMQStore
\* The body of the connection deleter, inside the lock.
connection_deleter(w) ==
  LET w1 == IF w.cm # NoCM THEN [cleanup(w) EXCEPT !.cm = NoCM] ELSE w
      w2 == IF w1.chan # None
              THEN [(IF w1.chan \in w1.chanOpen
                       THEN CloseChannel(w1, w1.chan) ELSE w1)
                    EXCEPT !.chan = None]
              ELSE w1
      w3 == IF w2.conn # None
              THEN [(IF cfg.pool
                       THEN return_connection(w2, w2.conn)
                       ELSE IF w2.conn \in w2.connOpen
                              THEN CloseConnection(w2, w2.conn) ELSE w2)
                    EXCEPT !.conn = None]
              ELSE w2
  IN w3

\* The body of the channel deleter, inside the lock (single-channel mode).
channel_deleter(w) ==
  IF w.chan # None
    THEN [(IF w.chan \in w.chanOpen THEN CloseChannel(w, w.chan) ELSE w)
          EXCEPT !.chan = None]
    ELSE w

\* (a shutdown() whose last finally clause forgets to clear _connection)
shutdown_body_keeps_connection(w) ==
  [connection_deleter(w) EXCEPT !.conn = w.conn]

\* The body of shutdown(), inside the lock.
shutdown_body(w) ==
  LET w0 == IF w.chan # None /\ w.chan \in w.chanOpen
              THEN StopConsuming(w, w.chan) ELSE w
  IN connection_deleter(w0)

\* ------------------------------------------------------------- threads
\* (a store whose methods do not take self._lock)
LockFree_unlocked == TRUE

\* self._lock can be taken.
LockFree == lock = NoThread

\* Where an exception raised inside the current operation is caught.
Thrown(l, e) ==
  IF l.op \in {"send", "start_consuming"}
    THEN [l EXCEPT !.exc = e, !.lastExc = e, !.prev = 0]
    ELSE [l EXCEPT !.raised = e, !.ch = 0, !.cm = 0]
\* (a consume loop without its except clauses)
ThrownPc_uncaught(l) ==
  CASE l.op = "send" -> "send_except"
    [] OTHER -> "idle"

ThrownPc(l) ==
  CASE l.op = "send" -> "send_except"
    [] l.op = "start_consuming" -> "sc_except"
    [] OTHER -> "idle"

\* The channel property is entered through the connection property in
\* channel-manager mode, and takes the lock itself otherwise.
ChannelEntry == IF cfg.cm THEN "cg_lock" ELSE "ch_lock"
InChannelProp(l) == l.caller = "channel" /\ ~cfg.cm

\* The connection c the connection property returns is kept by the caller
\* that asked for it; the channel property drops it (line 437).
Result(l, c) == IF l.op = "connection" THEN c ELSE None

\* The channel h the channel property returns stays with the thread while
\* its method runs.
Kept(l, h) == IF l.ret = "idle" THEN None ELSE h

\* Where the connection property returns to.
AfterConnection(l) == IF l.caller = "channel" THEN "ch_acquire" ELSE l.ret

\* ------------------------------------------------------------- start
\* The class before its first instance, and with the instance that the
\* constructor of a store with use_connection_pool has made (line 336).
\* The field objects counts the instances ever made.
NoPool == [_instance |-> None, _lock |-> NoThread, _initialized |-> FALSE,
           objects |-> 0]

\* A store built with one of the attempt limits of the set limits, while
\* the other stores that share the pool hold one of the numbers of
\* connections of the set held.
InitWith(limits, held) ==
  /\ cfg \in [pool : BOOLEAN, cm : BOOLEAN, max_attempts : limits]
  /\ named = [n \in ChannelNames |-> None]
  /\ ConnectionPool = IF cfg.pool
                      THEN [NoPool EXCEPT !._instance = 1,
                                          !._initialized = TRUE,
                                          !.objects = 1]
                      ELSE NoPool
  /\ shutdownFlag = FALSE
  /\ lock = NoThread
  /\ _connection = None
  /\ _channel = None
  /\ _channel_manager = NoCM
  /\ _pools = <<>>
  /\ _connection_counts \in IF cfg.pool THEN held ELSE {0}
  /\ connOpen = {}
  /\ chanOpen = {}
  /\ chanConn = [h \in ChanIds |-> None]
  /\ consumers = {}
  /\ faults = 0
  /\ lastFault = "none"
  /\ hist = [quiet |-> TRUE, seqs |-> 0, contended |-> FALSE]
  /\ pc = [t \in Threads |-> "idle"]
  /\ loc = [t \in Threads |-> NoLocals]

\* The store as the class defines it.
Init == InitWith({MAX_CONNECTION_ATTEMPTS}, {0})

\* A store whose MAX_CONNECTION_ATTEMPTS has been set to a finite number.
InitBounded == InitWith(1..MaxAttempts, {0})

\* A store that shares the pool with other stores of the same endpoint.
InitShared == InitWith({MAX_CONNECTION_ATTEMPTS}, 0..PoolMaxConnections)

StartPc(o) ==
  CASE o = "connection" -> "cg_lock"
    [] o = "del_connection" -> "cd_lock"
    [] o = "channel" -> ChannelEntry
    [] o = "shutdown" -> "sd_flag"
    [] o = "stop_listener" -> "sl_stop"
    [] o = "send" -> "send_try"
    [] o = "start_consuming" -> "sc_clear"
    [] o = "ConnectionPool" -> "pn_check"
    [] o = "declare_queue" -> "dq_get"

\* A thread calls a method of the store.
Begin(t, o) ==
  /\ pc[t] = "idle"
  /\ pc' = [pc EXCEPT ![t] = StartPc(o)]
  /\ loc' = [loc EXCEPT ![t] =
               [NoLocals EXCEPT !.op = o,
                                !.sattempts = IF o = "send" THEN 1 ELSE 0,
                                !.afterShut = /\ shutdownFlag
                                              /\ \A u \in Threads : pc[u] # "sd_lock",
                                !.caller = IF o = "channel" THEN "channel" ELSE "none"]]
  /\ hist' = IF o = "connection" THEN hist ELSE [quiet |-> FALSE, seqs |-> 0, contended |-> FALSE]
  /\ UNCHANGED <<cfg, named, ConnectionPool, shutdownFlag, lock, _connection, _channel,
                 _channel_manager, _pools, _connection_counts, connOpen,
                 chanOpen, chanConn, consumers, faults, lastFault>>

\* ------------------------------------------------- ConnectionPool()
\* Line 30: the first test of __new__, without the lock.
PoolNewCheck(t) ==
  /\ pc[t] = "pn_check"
  /\ IF ConnectionPool._instance = None
       THEN /\ pc' = [pc EXCEPT ![t] = "pn_lock"]
            /\ loc' = [loc EXCEPT ![t].first = TRUE]
       ELSE /\ pc' = [pc EXCEPT ![t] = "pn_init"]
            /\ loc' = [loc EXCEPT ![t].inst = ConnectionPool._instance]
  /\ UNCHANGED <<cfg, named, ConnectionPool, shutdownFlag, lock, _connection,
                 _channel, _channel_manager, _pools, _connection_counts,
                 connOpen, chanOpen, chanConn, consumers, faults, lastFault,
                 hist>>

\* (a class whose __new__ does not take the lock)
ClassLockFree_unlocked == TRUE

\* ConnectionPool._lock can be taken.
ClassLockFree == ConnectionPool._lock = NoThread

\* Line 31.
PoolNewLock(t) ==
  /\ pc[t] = "pn_lock"
  /\ ClassLockFree
  /\ ConnectionPool' = [ConnectionPool EXCEPT !._lock = t]
  /\ pc' = [pc EXCEPT ![t] = "pn_inner"]
  /\ UNCHANGED <<cfg, named, shutdownFlag, lock, _connection, _channel,
                 _channel_manager, _pools, _connection_counts, connOpen,
                 chanOpen, chanConn, consumers, faults, lastFault, hist, loc>>

\* Line 32: the second test, with the lock; lines 33-34 follow at once when
\* the instance is there.
PoolNewInner(t) ==
  /\ pc[t] = "pn_inner"
  /\ IF ConnectionPool._instance = None
       THEN /\ pc' = [pc EXCEPT ![t] = "pn_make"]
            /\ UNCHANGED <<ConnectionPool, loc>>
       ELSE /\ pc' = [pc EXCEPT ![t] = "pn_init"]
            /\ loc' = [loc EXCEPT ![t].inst = ConnectionPool._instance]
            /\ ConnectionPool' = [ConnectionPool EXCEPT !._lock = NoThread]
  /\ UNCHANGED <<cfg, named, shutdownFlag, lock, _connection, _channel,
                 _channel_manager, _pools, _connection_counts, connOpen,
                 chanOpen, chanConn, consumers, faults, lastFault, hist>>

\* Lines 33-34: a new object becomes the instance and is returned.
PoolNewMake(t) ==
  /\ pc[t] = "pn_make"
  /\ ConnectionPool' = [ConnectionPool EXCEPT
                          !._instance = ConnectionPool.objects + 1,
                          !.objects = @ + 1,
                          !._initialized = FALSE,
                          !._lock = NoThread]
  /\ pc' = [pc EXCEPT ![t] = "pn_init"]
  /\ loc' = [loc EXCEPT ![t].inst = ConnectionPool.objects + 1]
  /\ UNCHANGED <<cfg, named, shutdownFlag, lock, _connection, _channel,
                 _channel_manager, _pools, _connection_counts, connOpen,
                 chanOpen, chanConn, consumers, faults, lastFault, hist>>

\* Lines 37-38: __init__ returns at once on an instance already set up.
PoolInitCheck(t) ==
  /\ pc[t] = "pn_init"
  /\ pc' = [pc EXCEPT ![t] =
       IF ConnectionPool._initialized THEN "idle" ELSE "pn_setup"]
  /\ UNCHANGED <<cfg, named, ConnectionPool, shutdownFlag, lock, _connection,
                 _channel, _channel_manager, _pools, _connection_counts,
                 connOpen, chanOpen, chanConn, consumers, faults, lastFault,
                 hist, loc>>

\* Lines 39-44: the instance gets empty queues and counts.
PoolInitSetup(t) ==
  /\ pc[t] = "pn_setup"
  /\ ConnectionPool' = [ConnectionPool EXCEPT !._initialized = TRUE]
  /\ _pools' = <<>>
  /\ _connection_counts' = 0
  /\ pc' = [pc EXCEPT ![t] = "idle"]
  /\ UNCHANGED <<cfg, named, shutdownFlag, lock, _connection, _channel,
                 _channel_manager, connOpen, chanOpen, chanConn, consumers,
                 faults, lastFault, hist, loc>>

PoolNewSteps(t) ==
  \/ PoolNewCheck(t)
  \/ PoolNewLock(t)
  \/ PoolNewInner(t)
  \/ PoolNewMake(t)
  \/ PoolInitCheck(t)
  \/ PoolInitSetup(t)

\* ------------------------------------------- ConnectionPool._get_pool_key
\* Values of connection parameters: Python strings and integers, and the
\* absence of the parameter from the dict.
PyStr(x) == [type |-> "str", n |-> 0, s |-> x]
PyInt(x) == [type |-> "int", n |-> x, s |-> ""]
Absent == [type |-> "absent", n |-> 0, s |-> ""]

\* The values each parameter is given in the parameter sets tried.
ParamValues(k) ==
  CASE k = "hostname" -> {Absent, PyStr("localhost"), PyStr("guest")}
    [] k = "port" -> {Absent, PyInt(5672), PyInt(5673), PyStr("5672")}
    [] k = "username" -> {Absent, PyStr("guest"), PyStr("localhost")}
    [] k = "virtual_host" -> {Absent, PyStr("/"), PyStr("guest")}
    [] k = "password" -> {Absent, PyStr("secret")}
    [] k = "heartbeat" -> {Absent, PyInt(60)}

ParameterSets ==
  [hostname : ParamValues("hostname"), port : ParamValues("port"),
   username : ParamValues("username"),
   virtual_host : ParamValues("virtual_host"),
   password : ParamValues("password"), heartbeat : ParamValues("heartbeat")]

\* dict.get(k, d).
get(p, k, d) == IF p[k] = Absent THEN d ELSE p[k]

\* repr() of a string without quotes or backslashes, and of an integer.
repr(v) == IF v.type = "str" THEN "'" \o v.s \o "'" ELSE ToString(v.n)

\* (a key that leaves the virtual host out)
key_params_no_vhost(p) ==
  << <<"hostname", get(p, "hostname", PyStr("localhost"))>>,
     <<"port", get(p, "port", PyInt(5672))>>,
     <<"username", get(p, "username", PyStr("guest"))>> >>

\* Lines 48-53: the items of key_params, in insertion order.
key_params(p) ==
  << <<"hostname", get(p, "hostname", PyStr("localhost"))>>,
     <<"port", get(p, "port", PyInt(5672))>>,
     <<"username", get(p, "username", PyStr("guest"))>>,
     <<"virtual_host", get(p, "virtual_host", PyStr("/"))>> >>

\* The rank of a key of key_params in the order of Python strings.
KeyRank(k) ==
  CASE k = "hostname" -> 1 [] k = "port" -> 2 [] k = "username" -> 3
    [] k = "virtual_host" -> 4

RECURSIVE Insert(_, _)
Insert(item, items) ==
  IF items = <<>> \/ KeyRank(item[1]) <= KeyRank(Head(items)[1])
    THEN <<item>> \o items
    ELSE <<Head(items)>> \o Insert(item, Tail(items))

\* sorted() of a list of (key, value) items with distinct keys.
RECURSIVE sorted(_)
sorted(items) ==
  IF items = <<>> THEN <<>> ELSE Insert(Head(items), sorted(Tail(items)))

RECURSIVE Join(_)
Join(items) ==
  IF items = <<>> THEN ""
  ELSE "('" \o Head(items)[1] \o "', " \o repr(Head(items)[2]) \o ")"
       \o (IF Tail(items) = <<>> THEN "" ELSE ", " \o Join(Tail(items)))

\* str() of a list of (key, value) tuples.
str(items) == "[" \o Join(items) \o "]"

\* Line 54.
_get_pool_key(p) == str(sorted(key_params(p)))

\* A thread calls ConnectionPool._get_pool_key with a parameter dict, once.
GetPoolKey(t) ==
  /\ pc[t] = "idle"
  /\ loc[t].op = "none"
  /\ \E p \in ParameterSets :
       loc' = [loc EXCEPT ![t] = [NoLocals EXCEPT !.op = "_get_pool_key",
                                                  !.params = p,
                                                  !.key = _get_pool_key(p)]]
  /\ UNCHANGED <<cfg, named, ConnectionPool, shutdownFlag, lock, _connection,
                 _channel, _channel_manager, _pools, _connection_counts,
                 connOpen, chanOpen, chanConn, consumers, faults, lastFault,
                 hist, pc>>

\* ------------------------------------------------- connection property
\* (a property that never trusts the connection it holds)
Stale_always(c, open) == TRUE

\* Lines 383 and 451: no connection is held, or the held one is closed.
Stale(c, open) == c = None \/ c \notin open

\* Lines 382-384 and 393: with the lock, an open connection is returned as
\* it is; otherwise _create_connection is called with the lock held.
ConnGetLock(t) ==
  /\ pc[t] = "cg_lock"
  /\ LockFree
  /\ IF ~Stale(_connection, connOpen)
       THEN /\ pc' = [pc EXCEPT ![t] = AfterConnection(loc[t])]
            /\ loc' = [loc EXCEPT ![t].res = Result(loc[t], _connection)]
            /\ UNCHANGED <<lock, hist>>
       ELSE /\ lock' = t
            /\ pc' = [pc EXCEPT ![t] = "cc_pool"]
            /\ hist' = IF hist.quiet
                         THEN [hist EXCEPT !.seqs = Min(@ + 1, 2)] ELSE hist
            /\ UNCHANGED loc
  /\ UNCHANGED <<cfg, named, ConnectionPool, shutdownFlag, _connection, _channel, _channel_manager,
                 _pools, _connection_counts, connOpen, chanOpen, chanConn,
                 consumers, faults, lastFault>>

\* Lines 387-391: the channel manager of the new connection replaces the
\* old one, which is cleaned up first.
NewManager(w, c, id) ==
  [(IF w.cm # NoCM THEN cleanup(w) ELSE w) EXCEPT
     !.cm = [id |-> id, connection |-> c, _channels |-> <<>>,
             _channel_count |-> 0]]

\* _create_connection has returned connection c, leaving the world w: the
\* caller (connection property, or channel property in single-channel
\* mode) stores it and goes on.  made is the number of calls of
\* amqpstorm.Connection the direct path has made for it.
Created(t, c, w, made) ==
  IF InChannelProp(loc[t])
    THEN /\ Install([w EXCEPT !.conn = c])
         /\ pc' = [pc EXCEPT ![t] = "ch_open"]
         /\ loc' = [loc EXCEPT ![t].attempts = 0, ![t].delay = 0,
                               ![t].made = made, ![t].poolExc = "none"]
         /\ UNCHANGED lock
    ELSE /\ IF cfg.cm
              THEN /\ FreeCms # {}
                   /\ Install(NewManager([w EXCEPT !.conn = c], c,
                                         Smallest(FreeCms)))
              ELSE Install([w EXCEPT !.conn = c])
         /\ pc' = [pc EXCEPT ![t] = AfterConnection(loc[t])]
         /\ loc' = [loc EXCEPT ![t].attempts = 0, ![t].delay = 0,
                               ![t].made = made, ![t].poolExc = "none",
                               ![t].res = Result(loc[t], c)]
         /\ lock' = NoThread

\* The pool is not used, or has raised e: lines 345-350, the direct path
\* starts.
Fallback(t, w, e) ==
  /\ Install(w)
  /\ pc' = [pc EXCEPT ![t] = "cc_attempt"]
  /\ loc' = [loc EXCEPT ![t].attempts = 1, ![t].delay = RECONNECTION_DELAY,
                        ![t].made = 0, ![t].naps = 0, ![t].poolExc = e]
  /\ UNCHANGED lock

\* (a pool that opens connections whatever their number)
PoolHasRoom_always(n) == TRUE

\* Line 77.
PoolHasRoom(n) == n < PoolMaxConnections

\* Lines 342-346 with ConnectionPool.get_connection (lines 56-96).
CreateViaPool(t) ==
  /\ pc[t] = "cc_pool"
  /\ IF cfg.pool
       THEN LET s == PoolScan(_pools, _connection_counts, connOpen)
                w == [World EXCEPT !.pools = s.q, !.counts = s.n]
            IN \/ /\ s.conn # None
                  /\ Created(t, s.conn, w, 0)
               \/ /\ s.conn = None
                  /\ PoolHasRoom(s.n)
                  /\ FreeConns # {}
                  /\ LET c == Smallest(FreeConns)
                     IN Created(t, c, [OpenConnection(w, c) EXCEPT
                                         !.counts = @ + 1], 0)
               \/ /\ s.conn = None
                  /\ PoolHasRoom(s.n)
                  /\ Fallback(t, w, "AMQPConnectionError")
               \/ /\ s.conn = None
                  /\ ~PoolHasRoom(s.n)
                  /\ Fallback(t, w, "RuntimeError")
       ELSE Fallback(t, World, "none")
  /\ UNCHANGED <<cfg, named, ConnectionPool, shutdownFlag, faults, lastFault, hist>>

NextAttempts(a) ==
  IF cfg.max_attempts = Infinity THEN Min(a + 1, AttemptsCap) ELSE a + 1

\* The calls of amqpstorm.Connection and of time.sleep made by the direct
\* path are counted when the limit is finite.
Tally(n) == IF cfg.max_attempts = Infinity THEN 0 ELSE n + 1

\* (a loop that stops one attempt short of the limit)
MayAttempt_short(a, n) == a < n

\* Line 351.
MayAttempt(a, n) == a <= n

\* Lines 351-371 and 376: one pass of the while loop up to the sleep.
CreateAttempt(t) ==
  /\ pc[t] = "cc_attempt"
  /\ IF MayAttempt(loc[t].attempts, cfg.max_attempts)
       THEN \/ /\ FreeConns # {}
               /\ LET c == Smallest(FreeConns)
                  IN Created(t, c, OpenConnection(World, c),
                             Tally(loc[t].made))
            \/ /\ pc' = [pc EXCEPT ![t] = "cc_sleep"]
               /\ loc' = [loc EXCEPT ![t].attempts = NextAttempts(@),
                                     ![t].made = Tally(@)]
               /\ Install(World)
               /\ UNCHANGED lock
       ELSE /\ pc' = [pc EXCEPT ![t] = ThrownPc(loc[t])]
            /\ loc' = [loc EXCEPT ![t] =
                 Thrown([loc[t] EXCEPT !.attempts = 0, !.delay = 0,
                                       !.poolExc = "none"],
                        "AMQPConnectionError")]
            /\ lock' = NoThread
            /\ Install(World)
  /\ UNCHANGED <<cfg, named, ConnectionPool, shutdownFlag, faults, lastFault, hist>>

\* (a delay that doubles without limit)
CreateBackoff_uncapped(d) == d * 2

\* Lines 373-375: the delay of the next sleep.
CreateBackoff(d) == Min(d * 2, MAX_CONNECTION_DELAY)

\* Lines 372-375: the sleep, of delay seconds and with the lock still
\* held, and the new delay.
CreateSleep(t) ==
  /\ pc[t] = "cc_sleep"
  /\ pc' = [pc EXCEPT ![t] = "cc_attempt"]
  /\ loc' = [loc EXCEPT ![t].delay = CreateBackoff(@),
                        ![t].naps = Tally(@)]
  /\ hist' = IF hist.quiet /\ \E u \in Threads \ {t} : pc[u] = "cg_lock"
               THEN [hist EXCEPT !.contended = TRUE] ELSE hist
  /\ UNCHANGED <<cfg, named, ConnectionPool, shutdownFlag, lock, _connection, _channel,
                 _channel_manager, _pools, _connection_counts, connOpen,
                 chanOpen, chanConn, consumers, faults, lastFault>>

\* The connection c that del store.connection has invalidated is still
\* known to the caller that had read it.
Invalidated(l, c) == IF l.op = "del_connection" THEN c ELSE l.res

\* Connection deleter, lines 395-430.
ConnDelete(t) ==
  /\ pc[t] = "cd_lock"
  /\ LockFree
  /\ Install(connection_deleter(World))
  /\ pc' = [pc EXCEPT ![t] = loc[t].ret]
  /\ loc' = [loc EXCEPT ![t].res = Invalidated(loc[t], _connection)]
  /\ UNCHANGED <<cfg, named, ConnectionPool, shutdownFlag, lock, faults, lastFault, hist>>

\* ---------------------------------------------------- channel property
\* The while loop of ChannelManager._acquire_channel: idle channels are
\* taken out until an open one is found; closed ones are counted out.
RECURSIVE ChanScan(_, _, _)
\* (a scan that drops the closed channels without counting them out)
RECURSIVE ChanScan_uncounted(_, _, _)
ChanScan_uncounted(q, n, open) ==
  IF q = <<>> THEN [ch |-> None, q |-> q, n |-> n]
  ELSE IF Head(q) \in open THEN [ch |-> Head(q), q |-> Tail(q), n |-> n]
  ELSE ChanScan_uncounted(Tail(q), n, open)

\* (a scan that hands out the head of the queue and leaves it there)
ChanScan_peek(q, n, open) ==
  [ch |-> IF q = <<>> THEN None ELSE Head(q), q |-> q, n |-> n]

ChanScan(q, n, open) ==
  IF q = <<>> THEN [ch |-> None, q |-> q, n |-> n]
  ELSE IF Head(q) \in open THEN [ch |-> Head(q), q |-> Tail(q), n |-> n]
  ELSE ChanScan(Tail(q), n - 1, open)

\* (a manager that opens channels whatever their number)
HasRoom_always(n, max) == TRUE

\* Line 212.
HasRoom(n, max) == n < max

\* ChannelManager._acquire_channel (lines 197-222) on the manager of world
\* w: the outcomes it can have, each with the world it leaves.
AcquireOutcomes(w) ==
  LET s == ChanScan(w.cm._channels, w.cm._channel_count, w.chanOpen)
      w1 == [w EXCEPT !.cm._channels = s.q, !.cm._channel_count = s.n]
      c == w.cm.connection
  IN IF s.ch # None
       THEN {[w |-> w1, ch |-> s.ch, exc |-> "none", fault |-> FALSE]}
     ELSE IF HasRoom(s.n, MaxChannels)
       THEN IF c \notin w.connOpen
              THEN {[w |-> w1, ch |-> None, exc |-> "AMQPConnectionError",
                     fault |-> FALSE]}
              ELSE {[w |-> [OpenChannel(w1, c, h) EXCEPT
                              !.cm._channel_count = @ + 1],
                     ch |-> h, exc |-> "none", fault |-> FALSE] :
                      h \in IF CanOpenChannel(w, c) /\ FreeChans # {}
                              THEN {Smallest(FreeChans)} ELSE {}}
                   \cup (IF faults < MaxFaults
                           THEN {[w |-> w1, ch |-> None,
                                  exc |-> "AMQPConnectionError", fault |-> TRUE]}
                           ELSE {})
       ELSE {[w |-> w1, ch |-> None, exc |-> "RuntimeError", fault |-> FALSE]}

\* (a release that forgets the channel)
_release_channel_lost(w, h) == w

\* (a release that does not look at is_open)
_release_channel_unchecked(w, h) ==
  IF Len(w.cm._channels) < MaxChannels
    THEN [w EXCEPT !.cm._channels = Append(@, h)]
    ELSE [CloseChannel(w, h) EXCEPT !.cm._channel_count = @ - 1]

\* ChannelManager._release_channel (lines 224-240) of channel h.
_release_channel(w, h) ==
  IF h \notin w.chanOpen
    THEN [w EXCEPT !.cm._channel_count = @ - 1]
    ELSE IF Len(w.cm._channels) < MaxChannels
      THEN [w EXCEPT !.cm._channels = Append(@, h)]
      ELSE [CloseChannel(w, h) EXCEPT !.cm._channel_count = @ - 1]

\* The release at the end of ChannelManager.get_channel's with block, on
\* the manager object id the channel was taken from: a manager the store
\* has dropped since is not the store's any more.
Release(w, id, h) ==
  IF id # 0 /\ w.cm.id = id THEN _release_channel(w, h) ELSE w

\* The failure of outcome o is counted when the broker injected it.
Counted(o) ==
  IF o.fault
    THEN faults' = faults + 1 /\ lastFault' = o.exc
    ELSE UNCHANGED <<faults, lastFault>>

\* An exception e leaves the current method, or reaches its handler.
Throw(t, e) ==
  /\ pc' = [pc EXCEPT ![t] = ThrownPc(loc[t])]
  /\ loc' = [loc EXCEPT ![t] = Thrown(loc[t], e)]

\* Lines 438-441, channel-manager mode, after the connection property.
ChanAcquire(t) ==
  /\ pc[t] = "ch_acquire"
  /\ IF _channel_manager # NoCM
       THEN \E o \in AcquireOutcomes(World) :
              /\ Install(o.w)
              /\ Counted(o)
              /\ IF o.exc = "none"
                   THEN /\ pc' = [pc EXCEPT ![t] = loc[t].ret]
                        /\ loc' = [loc EXCEPT ![t].ch = Kept(loc[t], o.ch)]
                   ELSE Throw(t, o.exc)
       ELSE /\ Install(World)
            /\ Throw(t, "RuntimeError")
            /\ UNCHANGED <<faults, lastFault>>
  /\ UNCHANGED <<cfg, named, ConnectionPool, shutdownFlag, lock, hist>>

\* Lines 444-452, single-channel mode.
ChanLock(t) ==
  /\ pc[t] = "ch_lock"
  /\ LockFree
  /\ IF /\ ~Stale(_connection, connOpen)
        /\ _channel # None /\ _channel \in chanOpen
       THEN /\ pc' = [pc EXCEPT ![t] = loc[t].ret]
            /\ loc' = [loc EXCEPT ![t].ch = Kept(loc[t], _channel)]
            /\ UNCHANGED lock
       ELSE /\ lock' = t
            /\ pc' = [pc EXCEPT ![t] =
                 IF Stale(_connection, connOpen)
                   THEN "cc_pool" ELSE "ch_open"]
            /\ UNCHANGED loc
  /\ UNCHANGED <<cfg, named, ConnectionPool, shutdownFlag, _connection, _channel, _channel_manager,
                 _pools, _connection_counts, connOpen, chanOpen, chanConn,
                 consumers, faults, lastFault, hist>>

\* Lines 455-462, single-channel mode: the new channel.
ChanOpen(t) ==
  /\ pc[t] = "ch_open"
  /\ \/ /\ CanOpenChannel(World, _connection)
        /\ FreeChans # {}
        /\ LET h == Smallest(FreeChans)
           IN /\ Install([OpenChannel(World, _connection, h) EXCEPT !.chan = h])
              /\ loc' = [loc EXCEPT ![t].ch = Kept(loc[t], h)]
        /\ pc' = [pc EXCEPT ![t] = loc[t].ret]
        /\ UNCHANGED <<faults, lastFault>>
     \/ /\ _connection \in connOpen => faults < MaxFaults
        /\ Install(World)
        /\ Throw(t, "AMQPConnectionError")
        /\ Counted([exc |-> "AMQPConnectionError",
                    fault |-> _connection \in connOpen])
  /\ lock' = NoThread
  /\ UNCHANGED <<cfg, named, ConnectionPool, shutdownFlag, hist>>

\* A stop request is seen by the consume loops that have already cleared
\* the flag.
MarkStop(l) ==
  [t \in Threads |->
     IF l[t].op = "start_consuming" /\ pc[t] \notin {"idle", "sc_clear"}
       THEN [l[t] EXCEPT !.stopSeen = TRUE] ELSE l[t]]

\* Line 499.
ShutdownFlag(t) ==
  /\ pc[t] = "sd_flag"
  /\ shutdownFlag' = TRUE
  /\ pc' = [pc EXCEPT ![t] = "sd_lock"]
  /\ loc' = MarkStop(loc)
  /\ UNCHANGED <<cfg, named, ConnectionPool, lock, _connection, _channel, _channel_manager, _pools,
                 _connection_counts, connOpen, chanOpen, chanConn, consumers,
                 faults, lastFault, hist>>

\* Lines 500-546.
ShutdownBody(t) ==
  /\ pc[t] = "sd_lock"
  /\ LockFree
  /\ Install(shutdown_body(World))
  /\ pc' = [pc EXCEPT ![t] = "idle"]
  /\ UNCHANGED <<cfg, named, ConnectionPool, shutdownFlag, lock, faults, lastFault, hist, loc>>

\* -------------------------------------------------------- stop_listener
\* Lines 775-780, without the lock.
StopListenerStop(t) ==
  /\ pc[t] = "sl_stop"
  /\ Install(IF _channel # None /\ _channel \in chanOpen
               THEN StopConsuming(World, _channel) ELSE World)
  /\ pc' = [pc EXCEPT ![t] = "sl_flag"]
  /\ UNCHANGED <<cfg, named, ConnectionPool, shutdownFlag, lock, faults, lastFault, hist, loc>>

\* Line 785; del self.channel (line 788) does nothing in channel-manager
\* mode.
StopListenerFlag(t) ==
  /\ pc[t] = "sl_flag"
  /\ shutdownFlag' = TRUE
  /\ pc' = [pc EXCEPT ![t] = IF cfg.cm THEN "cd_lock" ELSE "sl_delch"]
  /\ loc' = MarkStop(loc)
  /\ UNCHANGED <<cfg, named, ConnectionPool, lock, _connection, _channel, _channel_manager, _pools,
                 _connection_counts, connOpen, chanOpen, chanConn, consumers,
                 faults, lastFault, hist>>

\* Line 788 in single-channel mode: the channel deleter, lines 487-495;
\* line 789 follows.
StopListenerDelChannel(t) ==
  /\ pc[t] = "sl_delch"
  /\ LockFree
  /\ Install(channel_deleter(World))
  /\ pc' = [pc EXCEPT ![t] = "cd_lock"]
  /\ UNCHANGED <<cfg, named, ConnectionPool, shutdownFlag, lock, faults, lastFault, hist, loc>>

\* ----------------------------------------------------------------- send
\* What a call on an open channel h can do besides succeeding: the worlds
\* it leaves and the exception it raises.  A channel error closes the
\* channel, a connection error the connection.
Failures(w, h) ==
  IF faults < MaxFaults
    THEN {[w |-> w, exc |-> "Exception", fault |-> TRUE],
          [w |-> CloseChannel(w, h), exc |-> "AMQPChannelError", fault |-> TRUE],
          [w |-> CloseConnection(w, w.chanConn[h]),
           exc |-> "AMQPConnectionError", fault |-> TRUE]}
    ELSE {}

\* A call on a channel that is closed already.
ClosedFailures(w, h) ==
  IF w.chanConn[h] \in w.connOpen
    THEN {[w |-> w, exc |-> "AMQPChannelError", fault |-> FALSE]}
    ELSE {[w |-> w, exc |-> "AMQPConnectionError", fault |-> FALSE]}

CallFailures(w, h) ==
  IF h \in w.chanOpen THEN Failures(w, h) ELSE ClosedFailures(w, h)

\* Lines 644-648 and 654: a pass of the loop starts by getting a channel,
\* through get_channel (lines 467-472) in channel-manager mode.
SendTry(t) ==
  /\ pc[t] = "send_try"
  /\ IF cfg.cm /\ _channel_manager # NoCM
       THEN \E o \in AcquireOutcomes(World) :
              /\ Install(o.w)
              /\ Counted(o)
              /\ IF o.exc = "none"
                   THEN /\ pc' = [pc EXCEPT ![t] = "send_pub"]
                        /\ loc' = [loc EXCEPT ![t].ch = o.ch,
                                              ![t].cm = _channel_manager.id,
                                              ![t].tries = @ + 1]
                   ELSE /\ pc' = [pc EXCEPT ![t] = "send_except"]
                        /\ loc' = [loc EXCEPT ![t].exc = o.exc,
                                              ![t].lastExc = o.exc,
                                              ![t].tries = @ + 1]
       ELSE /\ Install(World)
            /\ pc' = [pc EXCEPT ![t] = ChannelEntry]
            /\ loc' = [loc EXCEPT ![t].ret = "send_pub",
                                  ![t].caller = "channel",
                                  ![t].ch = 0, ![t].cm = 0,
                                  ![t].tries = @ + 1]
            /\ UNCHANGED <<faults, lastFault>>
  /\ UNCHANGED <<cfg, named, ConnectionPool, shutdownFlag, lock, hist>>

\* Lines 649-657: basic.publish on the channel, the release that ends the
\* with block, and the return of the message.
SendPublish(t) ==
  /\ pc[t] = "send_pub"
  /\ \/ /\ loc[t].ch \in chanOpen
        /\ Install(Release(World, loc[t].cm, loc[t].ch))
        /\ pc' = [pc EXCEPT ![t] = "idle"]
        /\ loc' = [loc EXCEPT ![t].returned = TRUE, ![t].ch = 0, ![t].cm = 0]
        /\ UNCHANGED <<faults, lastFault>>
     \/ \E o \in CallFailures(World, loc[t].ch) :
          /\ Install(Release(o.w, loc[t].cm, loc[t].ch))
          /\ Counted(o)
          /\ pc' = [pc EXCEPT ![t] = "send_except"]
          /\ loc' = [loc EXCEPT ![t].exc = o.exc, ![t].lastExc = o.exc,
                                ![t].ch = 0, ![t].cm = 0]
  /\ UNCHANGED <<cfg, named, ConnectionPool, shutdownFlag, lock, hist>>

\* (a send() that allows one attempt more)
SendGivesUp_late(attempts) == attempts > MAX_SEND_ATTEMPTS + 1

\* Line 661.
SendGivesUp(attempts) == attempts > MAX_SEND_ATTEMPTS

\* Lines 658-663: the handler deletes the connection, counts the attempt
\* and either raises or sleeps and goes round again.
SendExcept(t) ==
  /\ pc[t] = "send_except"
  /\ LockFree
  /\ Install(connection_deleter(World))
  /\ IF SendGivesUp(loc[t].sattempts + 1)
       THEN /\ pc' = [pc EXCEPT ![t] = "idle"]
            /\ loc' = [loc EXCEPT ![t].sattempts = @ + 1,
                                  ![t].raised = loc[t].exc,
                                  ![t].exc = "none"]
       ELSE /\ pc' = [pc EXCEPT ![t] = "send_try"]
            /\ loc' = [loc EXCEPT ![t].sattempts = @ + 1,
                                  ![t].exc = "none"]
  /\ UNCHANGED <<cfg, named, ConnectionPool, shutdownFlag, lock, faults, lastFault, hist>>

\* -------------------------------------------------------- declare_queue
\* The reply code of a missing queue; 0 stands for every other code.
NOT_FOUND == 404

\* Lines 612-613 and 625: _execute_queue_operation gets a channel, through
\* get_channel (lines 467-472) in channel-manager mode and through the
\* channel property otherwise.
DeclareGet(t) ==
  /\ pc[t] = "dq_get"
  /\ IF cfg.cm /\ _channel_manager # NoCM
       THEN \E o \in AcquireOutcomes(World) :
              /\ Install(o.w)
              /\ Counted(o)
              /\ IF o.exc = "none"
                   THEN /\ pc' = [pc EXCEPT ![t] = "dq_passive"]
                        /\ loc' = [loc EXCEPT ![t].ch = o.ch,
                                              ![t].cm = _channel_manager.id,
                                              ![t].tries = @ + 1]
                   ELSE Throw(t, o.exc)
       ELSE /\ Install(World)
            /\ pc' = [pc EXCEPT ![t] = ChannelEntry]
            /\ loc' = [loc EXCEPT ![t].ret = "dq_passive",
                                  ![t].caller = "channel",
                                  ![t].ch = 0, ![t].cm = 0,
                                  ![t].tries = @ + 1]
            /\ UNCHANGED <<faults, lastFault>>
  /\ UNCHANGED <<cfg, named, ConnectionPool, shutdownFlag, lock, hist>>

\* An exception e leaves declare_queue: the with block of line 612 or 618
\* releases the channel on the way.
DeclareRaises(t, w, e, code, act) ==
  /\ Install(Release(w, loc[t].cm, loc[t].ch))
  /\ pc' = [pc EXCEPT ![t] = "idle"]
  /\ loc' = [loc EXCEPT ![t].raised = e, ![t].code = code,
                        ![t].active = @ + act,
                        ![t].ch = 0, ![t].cm = 0]

\* declare_queue returns: the with block releases the channel.
DeclareReturns(t, act) ==
  /\ Install(Release(World, loc[t].cm, loc[t].ch))
  /\ pc' = [pc EXCEPT ![t] = "idle"]
  /\ loc' = [loc EXCEPT ![t].returned = TRUE, ![t].active = @ + act,
                        ![t].ch = 0, ![t].cm = 0]

\* Lines 597-603: the passive declare on the channel.  A queue that is
\* there makes it return; a missing queue makes the broker close the
\* channel with code 404; every other failure leaves declare_queue, the
\* handlers of lines 614-620 and 626-633 passing on what is no 404.
DeclarePassive(t) ==
  /\ pc[t] = "dq_passive"
  /\ \/ /\ loc[t].ch \in chanOpen
        /\ DeclareReturns(t, 0)
        /\ UNCHANGED <<faults, lastFault>>
     \/ /\ loc[t].ch \in chanOpen
        /\ Install(CloseChannel(World, loc[t].ch))
        /\ pc' = [pc EXCEPT ![t] = "dq_active"]
        /\ loc' = [loc EXCEPT ![t].code = NOT_FOUND]
        /\ UNCHANGED <<faults, lastFault>>
     \/ \E o \in CallFailures(World, loc[t].ch) :
          /\ DeclareRaises(t, o.w, o.exc, 0, 0)
          /\ Counted(o)
  /\ UNCHANGED <<cfg, named, ConnectionPool, shutdownFlag, lock, hist>>

\* Lines 604-605: the active declare, on the channel of the passive one.
\* On a closed channel it raises: the channel's stored error of code 404,
\* or the error of a closed channel or connection.  The handler of lines
\* 614-620 or 626-633 takes a channel error of code 404 once, in the first
\* round.
DeclareActive(t) ==
  /\ pc[t] = "dq_active"
  /\ IF loc[t].ch \in chanOpen
       THEN \/ /\ DeclareReturns(t, 1)
               /\ UNCHANGED <<faults, lastFault>>
            \/ \E o \in Failures(World, loc[t].ch) :
                 /\ DeclareRaises(t, o.w, o.exc, 0, 1)
                 /\ Counted(o)
       ELSE /\ \E o \in ClosedFailures(World, loc[t].ch) :
                 \E code \in IF o.exc = "AMQPChannelError"
                               THEN {NOT_FOUND, 0} ELSE {0} :
                   IF /\ o.exc = "AMQPChannelError"
                      /\ code = NOT_FOUND
                      /\ loc[t].tries = 1
                     THEN /\ Install(Release(World, loc[t].cm, loc[t].ch))
                          /\ pc' = [pc EXCEPT ![t] =
                               IF cfg.cm THEN "dq_get" ELSE "dq_delch"]
                          /\ loc' = [loc EXCEPT ![t].active = @ + 1,
                                                ![t].ch = 0, ![t].cm = 0]
                     ELSE DeclareRaises(t, World, o.exc, code, 1)
            /\ UNCHANGED <<faults, lastFault>>
  /\ UNCHANGED <<cfg, named, ConnectionPool, shutdownFlag, lock, hist>>

\* Line 631, single-channel mode: del self.channel before the second round.
DeclareDelChannel(t) ==
  /\ pc[t] = "dq_delch"
  /\ LockFree
  /\ Install(channel_deleter(World))
  /\ pc' = [pc EXCEPT ![t] = "dq_get"]
  /\ UNCHANGED <<cfg, named, ConnectionPool, shutdownFlag, lock, faults, lastFault, hist, loc>>

\* ------------------------------------------------------ start_consuming
\* Lines 691-693.
ConsumeClear(t) ==
  /\ pc[t] = "sc_clear"
  /\ shutdownFlag' = FALSE
  /\ pc' = [pc EXCEPT ![t] = "sc_loop"]
  /\ loc' = [loc EXCEPT ![t].cdelay = RECONNECTION_DELAY]
  /\ UNCHANGED <<cfg, named, ConnectionPool, lock, _connection, _channel, _channel_manager, _pools,
                 _connection_counts, connOpen, chanOpen, chanConn, consumers,
                 faults, lastFault, hist>>

\* Line 695, and the read of self.channel that starts line 697.
ConsumeLoop(t) ==
  /\ pc[t] = "sc_loop"
  /\ IF shutdownFlag
       THEN /\ pc' = [pc EXCEPT ![t] = "idle"]
            /\ loc' = [loc EXCEPT ![t].returned = TRUE, ![t].ch = 0]
       ELSE /\ pc' = [pc EXCEPT ![t] = ChannelEntry]
            /\ loc' = [loc EXCEPT ![t].ret = "sc_qos", ![t].caller = "channel",
                                  ![t].ch = 0]
  /\ UNCHANGED <<cfg, named, ConnectionPool, shutdownFlag, lock, _connection, _channel,
                 _channel_manager, _pools, _connection_counts, connOpen,
                 chanOpen, chanConn, consumers, faults, lastFault, hist>>

\* Line 697: basic.qos on the channel just read, then the read of
\* self.channel that starts line 698.  The channel of the QoS is
\* remembered in prev.
ConsumeQos(t) ==
  /\ pc[t] = "sc_qos"
  /\ \/ /\ loc[t].ch \in chanOpen
        /\ Install(World)
        /\ pc' = [pc EXCEPT ![t] = ChannelEntry]
        /\ loc' = [loc EXCEPT ![t].ret = "sc_consume", ![t].ch = 0,
                              ![t].prev = loc[t].ch]
        /\ UNCHANGED <<faults, lastFault>>
     \/ \E o \in CallFailures(World, loc[t].ch) :
          /\ Install(o.w)
          /\ Counted(o)
          /\ Throw(t, o.exc)
  /\ UNCHANGED <<cfg, named, ConnectionPool, shutdownFlag, lock, hist>>

\* Lines 698-700: basic.consume registers the callback on the channel just
\* read, then the read of self.channel that starts line 701.
ConsumeRegister(t) ==
  /\ pc[t] = "sc_consume"
  /\ \/ /\ loc[t].ch \in chanOpen
        /\ Install([World EXCEPT !.consumers = @ \cup {loc[t].ch}])
        /\ pc' = [pc EXCEPT ![t] = ChannelEntry]
        /\ loc' = [loc EXCEPT ![t].ret = "sc_wait", ![t].ch = 0]
        /\ UNCHANGED <<faults, lastFault>>
     \/ \E o \in CallFailures(World, loc[t].ch) :
          /\ Install(o.w)
          /\ Counted(o)
          /\ Throw(t, o.exc)
  /\ UNCHANGED <<cfg, named, ConnectionPool, shutdownFlag, lock, hist>>

\* The thread is blocked in channel.start_consuming with deliveries going
\* to the callback.
Delivering(t) ==
  /\ pc[t] = "sc_wait"
  /\ loc[t].ch \in chanOpen
  /\ loc[t].ch \in consumers

\* Line 701: channel.start_consuming on the channel just read.  It blocks
\* while the channel is open and has consumers, and returns once the
\* consumers are cancelled or the channel is closed (or raises, when an
\* error closed it).  On an open channel without consumer callback it
\* returns or raises a channel error at once.
ConsumeWaitEnds(t) ==
  /\ pc[t] = "sc_wait"
  /\ ~Delivering(t)
  /\ \/ /\ pc' = [pc EXCEPT ![t] = "sc_finally"]
        /\ UNCHANGED loc
     \/ \E o \in ClosedFailures(World, loc[t].ch) :
          Throw(t, IF loc[t].ch \in chanOpen
                     THEN "AMQPChannelError" ELSE o.exc)
  /\ UNCHANGED <<cfg, named, ConnectionPool, shutdownFlag, lock, _connection, _channel,
                 _channel_manager, _pools, _connection_counts, connOpen,
                 chanOpen, chanConn, consumers, faults, lastFault, hist>>

\* Line 701, while blocked: the broker fails the channel or the
\* connection, or the callback raises.
ConsumeWaitFails(t) ==
  /\ Delivering(t)
  /\ \E o \in Failures(World, loc[t].ch) :
       /\ Install(o.w)
       /\ Counted(o)
       /\ Throw(t, o.exc)
  /\ UNCHANGED <<cfg, named, ConnectionPool, shutdownFlag, lock, hist>>

\* (a loop whose handler of connection errors does not look at the flag)
HandlerBreaks_unless_connection(flag, e) ==
  flag /\ e # "AMQPConnectionError"

\* Lines 703, 713, 724: the test that starts the handler of exception e.
HandlerBreaks(flag, e) == flag

\* Lines 702-704, 712-714, 723-725: every handler first looks at the flag.
ConsumeExcept(t) ==
  /\ pc[t] = "sc_except"
  /\ IF HandlerBreaks(shutdownFlag, loc[t].exc)
       THEN /\ pc' = [pc EXCEPT ![t] = "sc_finally"]
            /\ loc' = [loc EXCEPT ![t].exc = "break"]
       ELSE /\ pc' = [pc EXCEPT ![t] = "sc_handle"]
            /\ UNCHANGED loc
  /\ UNCHANGED <<cfg, named, ConnectionPool, shutdownFlag, lock, _connection, _channel,
                 _channel_manager, _pools, _connection_counts, connOpen,
                 chanOpen, chanConn, consumers, faults, lastFault, hist>>

\* What the handler of exception e deletes: the channel on a channel error
\* (line 706), the connection otherwise (lines 718 and 727).
ConsumeHandler(e) ==
  IF e = "AMQPChannelError" THEN "del_channel" ELSE "del_connection"

\* Lines 706, 718, 727.  The channel deleter does nothing in
\* channel-manager mode (lines 483-485).
ConsumeHandle(t) ==
  /\ pc[t] = "sc_handle"
  /\ IF ConsumeHandler(loc[t].exc) = "del_channel"
       THEN IF cfg.cm
              THEN Install(World)
              ELSE LockFree /\ Install(channel_deleter(World))
       ELSE LockFree /\ Install(connection_deleter(World))
  /\ pc' = [pc EXCEPT ![t] = "sc_sleep"]
  /\ loc' = [loc EXCEPT ![t].exc = "none"]
  /\ UNCHANGED <<cfg, named, ConnectionPool, shutdownFlag, lock, faults, lastFault, hist>>

\* (a delay that grows by the base delay)
ConsumeBackoff_additive(d) == Min(d + RECONNECTION_DELAY, MAX_CONNECTION_DELAY)

\* Lines 708-710, 720-722, 729-731: the delay of the next sleep.
ConsumeBackoff(d) == Min(d * 2, MAX_CONNECTION_DELAY)

\* Lines 707-710, 719-722, 728-731: the backoff sleep, of cdelay seconds,
\* and the new delay.  The sleeps of the call are counted.
ConsumeSleep(t) ==
  /\ pc[t] = "sc_sleep"
  /\ pc' = [pc EXCEPT ![t] = "sc_finally"]
  /\ loc' = [loc EXCEPT ![t].cdelay = ConsumeBackoff(@),
                        ![t].sleeps = Min(@ + 1, SleepsCap)]
  /\ UNCHANGED <<cfg, named, ConnectionPool, shutdownFlag, lock, _connection, _channel,
                 _channel_manager, _pools, _connection_counts, connOpen,
                 chanOpen, chanConn, consumers, faults, lastFault, hist>>

\* (a loop that also ends when the handler or the wait has come back)
LoopEnds_always(flag, brk) == TRUE

\* Lines 703-704, 713-714, 724-725 and 739-740: the loop is left on a
\* handler's break or when the finally clause finds the flag set.
LoopEnds(flag, brk) == flag \/ brk

\* Lines 732-740: the finally clause.
ConsumeFinally(t) ==
  /\ pc[t] = "sc_finally"
  /\ Install(IF _channel # None /\ _channel \in chanOpen
               THEN StopConsuming(World, _channel) ELSE World)
  /\ IF LoopEnds(shutdownFlag, loc[t].exc = "break")
       THEN /\ pc' = [pc EXCEPT ![t] = "idle"]
            /\ loc' = [loc EXCEPT ![t].returned = TRUE, ![t].ch = 0,
                                  ![t].exc = "none", ![t].prev = 0]
       ELSE /\ pc' = [pc EXCEPT ![t] = "sc_loop"]
            /\ loc' = [loc EXCEPT ![t].ch = 0, ![t].prev = 0]
  /\ UNCHANGED <<cfg, named, ConnectionPool, shutdownFlag, lock, faults, lastFault, hist>>

\* ------------------------------------- ChannelManager, called directly
\* The channels of the manager's connection in the states below.
ManagerChans == 1..(MaxChannels + 1)

\* The sequences without repetition of elements of S, up to length n.
RECURSIVE Queues(_, _)
Queues(S, n) ==
  IF n = 0 THEN {<<>>}
  ELSE LET shorter == Queues(S, n - 1)
       IN shorter \cup {Append(q, h) : q \in shorter, h \in S}

\* A manager on an open connection, as the calls of its callers and the
\* broker's closing of channels can have left it: some channels idle in the
\* queue, some of them closed since, and a count of at least the idle
\* ones.
InitManager ==
  /\ cfg = [pool |-> FALSE, cm |-> TRUE, max_attempts |-> MAX_CONNECTION_ATTEMPTS]
  /\ named = [n \in ChannelNames |-> None]
  /\ ConnectionPool = NoPool
  /\ shutdownFlag = FALSE
  /\ lock = NoThread
  /\ _connection = 1
  /\ _channel = None
  /\ \E q \in {x \in Queues(ManagerChans, MaxChannels) :
                  Cardinality(SeqSet(x)) = Len(x)} :
     \E n \in Len(q)..MaxChannels :
       _channel_manager = [id |-> 1, connection |-> 1, _channels |-> q,
                           _channel_count |-> n]
  /\ _pools = <<>>
  /\ _connection_counts = 0
  /\ connOpen = {1}
  /\ chanOpen \in {S \in SUBSET ManagerChans : Cardinality(S) <= ChannelMax}
  /\ chanConn = [h \in ChanIds |-> IF h \in ManagerChans THEN 1 ELSE None]
  /\ consumers = {}
  /\ faults = 0
  /\ lastFault = "none"
  /\ hist = [quiet |-> TRUE, seqs |-> 0, contended |-> FALSE]
  /\ pc = [t \in Threads |-> "idle"]
  /\ loc = [t \in Threads |-> NoLocals]

\* A caller calls _acquire_channel() of the store's manager, once.
ManagerAcquire(t) ==
  /\ pc[t] = "idle"
  /\ loc[t].op = "none"
  /\ _channel_manager # NoCM
  /\ \E o \in AcquireOutcomes(World) :
       /\ Install(o.w)
       /\ Counted(o)
       /\ loc' = [loc EXCEPT ![t] = [NoLocals EXCEPT !.op = "_acquire_channel",
                                                     !.ch = o.ch,
                                                     !.raised = o.exc]]
  /\ UNCHANGED <<cfg, named, ConnectionPool, shutdownFlag, lock, hist, pc>>

\* A caller calls _release_channel(h) of the store's manager, once, with a
\* channel of the manager's connection that is not idle in the queue.
ManagerRelease(t) ==
  /\ pc[t] = "idle"
  /\ loc[t].op = "none"
  /\ _channel_manager # NoCM
  /\ \E h \in ManagerChans \ SeqSet(_channel_manager._channels) :
       /\ Install(_release_channel(World, h))
       /\ loc' = [loc EXCEPT ![t] = [NoLocals EXCEPT !.op = "_release_channel",
                                                     !.ch = h]]
  /\ UNCHANGED <<cfg, named, ConnectionPool, shutdownFlag, lock, faults,
                 lastFault, hist, pc>>

\* A caller calls cleanup() of the store's manager, once; the close() of
\* an idle channel may raise.
ManagerCleanup(t) ==
  /\ pc[t] = "idle"
  /\ loc[t].op = "none"
  /\ _channel_manager # NoCM
  /\ \E failed \in SUBSET (SeqSet(_channel_manager._channels) \cap chanOpen) :
       /\ Cardinality(failed) <= MaxFaults - faults
       /\ Install(Cleaned(World, failed))
       /\ faults' = faults + Cardinality(failed)
       /\ lastFault' = IF failed = {} THEN lastFault ELSE "AMQPChannelError"
  /\ loc' = [loc EXCEPT ![t] = [NoLocals EXCEPT !.op = "cleanup"]]
  /\ UNCHANGED <<cfg, named, ConnectionPool, shutdownFlag, lock, hist, pc>>

\* ------------------------------------- ConnectionPool, called directly
\* The pool of one key as the calls of the stores that share it and the
\* broker's closing of connections can have left it: connections idle in
\* the queue, the oldest of them closed since, the count at least the
\* number of the idle ones.  One connection more is lent out.
InitPool ==
  /\ cfg = [pool |-> TRUE, cm |-> FALSE, max_attempts |-> MAX_CONNECTION_ATTEMPTS]
  /\ named = [n \in ChannelNames |-> None]
  /\ ConnectionPool = [NoPool EXCEPT !._instance = 1, !._initialized = TRUE,
                                     !.objects = 1]
  /\ shutdownFlag = FALSE
  /\ lock = NoThread
  /\ _connection = None
  /\ _channel = None
  /\ _channel_manager = NoCM
  /\ \E k \in 0..PoolMaxConnections :
       /\ _pools = [i \in 1..k |-> i]
       /\ _connection_counts \in k..PoolMaxConnections
       /\ \E j \in 0..k, lent \in SUBSET {PoolMaxConnections + 1} :
            connOpen = ((j + 1)..k) \cup lent
  /\ chanOpen = {}
  /\ chanConn = [h \in ChanIds |-> None]
  /\ consumers = {}
  /\ faults = 0
  /\ lastFault = "none"
  /\ hist = [quiet |-> TRUE, seqs |-> 0, contended |-> FALSE]
  /\ pc = [t \in Threads |-> "idle"]
  /\ loc = [t \in Threads |-> NoLocals]

\* A caller that has the pool, from its own ConnectionPool() or from an
\* earlier one, calls get_connection(p) (lines 56-96), once: an open idle
\* connection is handed out, or a new one is opened and counted, or the
\* call raises.  made tells that the call opened the connection.  The
\* callers' parameters are all of one endpoint, that of a store built with
\* its defaults, with and without the parameters that have a default, and
\* with different passwords.
PoolGet(t) ==
  /\ pc[t] = "idle"
  /\ loc[t].op \in {"none", "ConnectionPool"}
  /\ ConnectionPool._initialized
  /\ \E p \in {x \in ParameterSets :
                  /\ x.username = PyStr("guest")
                  /\ x.virtual_host = Absent /\ x.heartbeat = Absent
                  /\ _get_pool_key(x)
                       = _get_pool_key([k \in DOMAIN x |-> Absent])} :
       LET s == PoolScan(_pools, _connection_counts, connOpen)
           w == [World EXCEPT !.pools = s.q, !.counts = s.n]
           l == [NoLocals EXCEPT !.op = "get_connection", !.params = p,
                                 !.key = _get_pool_key(p)]
       IN \/ /\ s.conn # None
             /\ Install(w)
             /\ loc' = [loc EXCEPT ![t] = [l EXCEPT !.res = s.conn]]
          \/ /\ s.conn = None
             /\ PoolHasRoom(s.n)
             /\ FreeConns # {}
             /\ LET c == Smallest(FreeConns)
                IN /\ Install([OpenConnection(w, c) EXCEPT !.counts = @ + 1])
                   /\ loc' = [loc EXCEPT ![t] = [l EXCEPT !.res = c,
                                                          !.made = 1]]
          \/ /\ s.conn = None
             /\ Install(w)
             /\ loc' = [loc EXCEPT ![t] =
                  [l EXCEPT !.raised = IF PoolHasRoom(s.n)
                                         THEN "AMQPConnectionError"
                                         ELSE "RuntimeError"]]
  /\ UNCHANGED <<cfg, named, ConnectionPool, shutdownFlag, lock, faults,
                 lastFault, hist, pc>>

\* A caller calls return_connection(c, p) (lines 98-120), once: with the
\* connection its get_connection has handed out, or with the connection
\* that was lent out at the start.
PoolReturn(t) ==
  /\ pc[t] = "idle"
  /\ \/ loc[t].op = "none"
     \/ loc[t].op = "get_connection" /\ loc[t].res # None
  /\ LET c == IF loc[t].op = "none" THEN PoolMaxConnections + 1
                                    ELSE loc[t].res
     IN /\ c \notin SeqSet(_pools)
        /\ Install(return_connection(World, c))
        /\ loc' = [loc EXCEPT ![t].op = "return_connection", ![t].res = c]
  /\ UNCHANGED <<cfg, named, ConnectionPool, shutdownFlag, lock, faults,
                 lastFault, hist, pc>>

\* ------------------------------------------------------- named channels
\* The named channels of a connection manager, after the specification's
\* NamedChannelRegistry: create_channel(name) returns the channel kept
\* under the name when it is open, and otherwise opens a new one on the
\* manager's connection, trying up to CHANNEL_ATTEMPTS times.
CHANNEL_ATTEMPTS == 3

\* A caller calls create_channel(n).
CreateChannelCall(t) ==
  /\ pc[t] = "idle"
  /\ pc' = [pc EXCEPT ![t] = "nc_check"]
  /\ \E n \in ChannelNames :
       loc' = [loc EXCEPT ![t] = [NoLocals EXCEPT !.op = "create_channel",
                                                  !.name = n]]
  /\ UNCHANGED <<cfg, named, ConnectionPool, shutdownFlag, lock, _connection,
                 _channel, _channel_manager, _pools, _connection_counts,
                 connOpen, chanOpen, chanConn, consumers, faults, lastFault,
                 hist>>

\* (a registry that returns whatever it keeps under the name)
NamedLive_any(h, open) == h # None

\* The channel kept under a name can be returned.
NamedLive(h, open) == h # None /\ h \in open

\* The lookup of the name.
NamedCheck(t) ==
  /\ pc[t] = "nc_check"
  /\ IF NamedLive(named[loc[t].name], chanOpen)
       THEN /\ pc' = [pc EXCEPT ![t] = "idle"]
            /\ loc' = [loc EXCEPT ![t].ch = named[loc[t].name],
                                  ![t].returned = TRUE]
       ELSE /\ pc' = [pc EXCEPT ![t] = "nc_attempt"]
            /\ UNCHANGED loc
  /\ UNCHANGED <<cfg, named, ConnectionPool, shutdownFlag, lock, _connection,
                 _channel, _channel_manager, _pools, _connection_counts,
                 connOpen, chanOpen, chanConn, consumers, faults, lastFault,
                 hist>>

\* One attempt to open the channel on the manager's connection.
NamedAttempt(t) ==
  /\ pc[t] = "nc_attempt"
  /\ \/ /\ CanOpenChannel(World, _connection)
        /\ FreeChans # {}
        /\ LET h == Smallest(FreeChans)
           IN /\ Install(OpenChannel(World, _connection, h))
              /\ named' = [named EXCEPT ![loc[t].name] = h]
              /\ loc' = [loc EXCEPT ![t].ch = h, ![t].returned = TRUE,
                                    ![t].tries = @ + 1]
        /\ pc' = [pc EXCEPT ![t] = "idle"]
     \/ /\ Install(World)
        /\ UNCHANGED named
        /\ IF loc[t].tries + 1 < CHANNEL_ATTEMPTS
             THEN /\ pc' = [pc EXCEPT ![t] = "nc_sleep"]
                  /\ loc' = [loc EXCEPT ![t].tries = @ + 1]
             ELSE /\ pc' = [pc EXCEPT ![t] = "idle"]
                  /\ loc' = [loc EXCEPT ![t].tries = @ + 1,
                                        ![t].raised = "AMQPChannelError"]
  /\ UNCHANGED <<cfg, ConnectionPool, shutdownFlag, lock, faults, lastFault,
                 hist>>

\* The pause between two attempts.
NamedSleep(t) ==
  /\ pc[t] = "nc_sleep"
  /\ pc' = [pc EXCEPT ![t] = "nc_attempt"]
  /\ UNCHANGED <<cfg, named, ConnectionPool, shutdownFlag, lock, _connection,
                 _channel, _channel_manager, _pools, _connection_counts,
                 connOpen, chanOpen, chanConn, consumers, faults, lastFault,
                 hist, loc>>

\* The manager's connection is made, or made again.
ManagerConnects ==
  /\ Stale(_connection, connOpen)
  /\ FreeConns # {}
  /\ LET c == Smallest(FreeConns)
     IN Install([OpenConnection(World, c) EXCEPT !.conn = c])
  /\ UNCHANGED <<cfg, named, ConnectionPool, shutdownFlag, lock, faults,
                 lastFault, hist, pc, loc>>

\* A named channel is closed from outside.
NamedChannelClosed(n) ==
  /\ named[n] \in chanOpen
  /\ faults < MaxFaults
  /\ faults' = faults + 1
  /\ lastFault' = "ChannelClosed"
  /\ Install(CloseChannel(World, named[n]))
  /\ UNCHANGED <<cfg, named, ConnectionPool, shutdownFlag, lock, hist, pc, loc>>

NamedSteps(t) ==
  \/ CreateChannelCall(t)
  \/ NamedCheck(t)
  \/ NamedAttempt(t)
  \/ NamedSleep(t)

\* ----------------------------------------------------------- the broker
\* The broker, or the network, closes a connection on its own.
ConnectionLost(c) ==
  /\ c \in connOpen
  /\ faults < MaxFaults
  /\ faults' = faults + 1
  /\ lastFault' = "ConnectionLost"
  /\ Install(CloseConnection(World, c))
  /\ hist' = [quiet |-> FALSE, seqs |-> 0, contended |-> FALSE]
  /\ UNCHANGED <<cfg, named, ConnectionPool, shutdownFlag, lock, pc, loc>>

\* -------------------------------------------------------- specifications
ConnectionSteps(t) ==
  \/ ConnGetLock(t)
  \/ CreateViaPool(t)
  \/ CreateAttempt(t)
  \/ CreateSleep(t)

ChannelSteps(t) ==
  \/ ChanAcquire(t)
  \/ ChanLock(t)
  \/ ChanOpen(t)

ShutdownSteps(t) ==
  \/ ShutdownFlag(t)
  \/ ShutdownBody(t)

StopListenerSteps(t) ==
  \/ StopListenerStop(t)
  \/ StopListenerFlag(t)
  \/ StopListenerDelChannel(t)

SendSteps(t) ==
  \/ SendTry(t)
  \/ SendPublish(t)
  \/ SendExcept(t)

DeclareSteps(t) ==
  \/ DeclareGet(t)
  \/ DeclarePassive(t)
  \/ DeclareActive(t)
  \/ DeclareDelChannel(t)

ConsumeSteps(t) ==
  \/ ConsumeClear(t)
  \/ ConsumeLoop(t)
  \/ ConsumeQos(t)
  \/ ConsumeRegister(t)
  \/ ConsumeWaitEnds(t)
  \/ ConsumeExcept(t)
  \/ ConsumeHandle(t)
  \/ ConsumeSleep(t)
  \/ ConsumeFinally(t)

\* The store's life: threads read the properties, delete the connection and
\* shut the store down, while the broker may drop a connection.
Next ==
  \/ \E t \in Workers,
        o \in {"connection", "channel", "del_connection", "shutdown"} :
          Begin(t, o)
  \/ \E t \in Threads : ConnectionSteps(t)
  \/ \E t \in Threads : ChannelSteps(t)
  \/ \E t \in Threads : ConnDelete(t)
  \/ \E t \in Threads : ShutdownSteps(t)
  \/ \E c \in ConnIds : ConnectionLost(c)

Spec == Init /\ [][Next]_vars

\* Threads that only read the connection property.
NextConn ==
  \/ \E t \in Threads : Begin(t, "connection")
  \/ \E t \in Threads : ConnectionSteps(t)

SpecConn == Init /\ [][NextConn]_vars

\* The same threads on a store with a finite MAX_CONNECTION_ATTEMPTS.
SpecAttempts == InitBounded /\ [][NextConn]_vars

\* One thread sends while the other deletes the connection.
Sender == "t1"
NextSend ==
  \/ Begin(Sender, "send")
  \/ \E t \in Workers \ {Sender} : Begin(t, "del_connection")
  \/ \E t \in Threads : ConnectionSteps(t)
  \/ \E t \in Threads : ChannelSteps(t)
  \/ \E t \in Threads : ConnDelete(t)
  \/ SendSteps(Sender)

SpecSend == Init /\ [][NextSend]_vars

\* One thread runs the consume loop while the other stops it.
Consumer == "t1"
NextConsume ==
  \/ Begin(Consumer, "start_consuming")
  \/ \E t \in Workers \ {Consumer}, o \in {"shutdown", "stop_listener"} :
       Begin(t, o)
  \/ \E t \in Threads : ConnectionSteps(t)
  \/ \E t \in Threads : ChannelSteps(t)
  \/ \E t \in Threads : ConnDelete(t)
  \/ \E t \in Threads : ShutdownSteps(t)
  \/ \E t \in Threads : StopListenerSteps(t)
  \/ ConsumeSteps(Consumer)
  \/ ConsumeWaitFails(Consumer)

SpecConsume == Init /\ [][NextConsume]_vars

\* The steps a thread takes once it has called a method: those of the
\* method, not the failures the broker injects while it is blocked.
ThreadRuns(t) ==
  \/ ConnectionSteps(t)
  \/ ChannelSteps(t)
  \/ ConnDelete(t)
  \/ ShutdownSteps(t)
  \/ StopListenerSteps(t)
  \/ ConsumeSteps(t)

\* A thread that can take a step again and again takes it in the end: it
\* is scheduled, and gets the lock it waits for if the lock keeps being
\* released.
FairConsume == SpecConsume /\ \A t \in Workers : SF_vars(ThreadRuns(t))

\* Threads read and delete the connection of a store that shares the pool
\* with other stores, while the broker may drop a connection.
NextPool ==
  \/ \E t \in Workers, o \in {"connection", "del_connection"} : Begin(t, o)
  \/ \E t \in Workers : ConnectionSteps(t)
  \/ \E t \in Workers : ConnDelete(t)
  \/ \E c \in ConnIds : ConnectionLost(c)

SpecPool == InitShared /\ [][NextPool]_vars

\* Threads construct ConnectionPool() at the same time.
NextSingleton ==
  \/ \E t \in Threads : Begin(t, "ConnectionPool")
  \/ \E t \in Threads : PoolNewSteps(t)

SpecSingleton == Init /\ [][NextSingleton]_vars

\* Two threads construct ConnectionPool() and use the pool they get.
NextFirstUse ==
  \/ \E t \in Workers : Begin(t, "ConnectionPool")
  \/ \E t \in Workers : PoolNewSteps(t)
  \/ \E t \in Workers : PoolGet(t)

SpecFirstUse == Init /\ [][NextFirstUse]_vars

\* Two callers ask the pool for the key of their parameters.
NextKey == \E t \in Workers : GetPoolKey(t)

SpecKey == Init /\ [][NextKey]_vars

\* Two threads declare queues through the same store.
NextDeclare ==
  \/ \E t \in Workers : Begin(t, "declare_queue")
  \/ \E t \in Workers : ConnectionSteps(t)
  \/ \E t \in Workers : ChannelSteps(t)
  \/ \E t \in Workers : DeclareSteps(t)

SpecDeclare == Init /\ [][NextDeclare]_vars

\* Two callers ask for named channels while channels are closed from
\* outside.
NextNamed ==
  \/ \E t \in Workers : NamedSteps(t)
  \/ ManagerConnects
  \/ \E n \in ChannelNames : NamedChannelClosed(n)

SpecNamed == Init /\ [][NextNamed]_vars

\* Callers use a channel manager directly.
NextManager ==
  \/ \E t \in Workers : ManagerAcquire(t)
  \/ \E t \in Workers : ManagerRelease(t)
  \/ \E t \in Workers : ManagerCleanup(t)

SpecManager == InitManager /\ [][NextManager]_vars

\* Callers use the pool directly.
NextPoolCalls ==
  \/ \E t \in Workers : PoolGet(t)
  \/ \E t \in Workers : PoolReturn(t)

SpecPoolCalls == InitPool /\ [][NextPoolCalls]_vars

\* Two threads send through the same store at the same time.
NextChannels ==
  \/ \E t \in Workers : Begin(t, "send")
  \/ \E t \in Workers : ConnectionSteps(t)
  \/ \E t \in Workers : ChannelSteps(t)
  \/ \E t \in Workers : SendSteps(t)

SpecChannels == Init /\ [][NextChannels]_vars

\* A sending thread is scheduled like any other.
FairSend ==
  SpecSend /\ \A t \in Workers : SF_vars(ThreadRuns(t) \/ SendSteps(t))

\* Threads read the connection property and shut the store down.
NextReconnect ==
  \/ \E t \in Workers, o \in {"connection", "shutdown"} : Begin(t, o)
  \/ \E t \in Workers : ConnectionSteps(t)
  \/ \E t \in Workers : ShutdownSteps(t)

SpecReconnect == Init /\ [][NextReconnect]_vars

FairReconnect == SpecReconnect /\ \A t \in Workers : SF_vars(ThreadRuns(t))

\* ---------------------------------------------------------- properties
TypeOK == pc \in [Threads -> STRING]

Finished(t, o) == pc[t] = "idle" /\ loc[t].op = o

\* C1: while threads only read the connection property and the broker
\* drops nothing, at most one _create_connection call is made, and every
\* thread that has returned holds the store's one connection.
C1_OneCreation ==
  hist.quiet =>
    /\ hist.seqs <= 1
    /\ \A t \in Threads :
         Finished(t, "connection") =>
           /\ loc[t].raised = "none"
           /\ loc[t].res # None
           /\ loc[t].res = _connection

\* Every thread has read the connection, the creation needed retries and
\* other threads arrived while it was in flight.
C1_Witness ==
  /\ hist.quiet /\ hist.contended /\ hist.seqs = 1
  /\ \A t \in Threads : Finished(t, "connection") /\ loc[t].res = _connection

ShutDown ==
  /\ shutdownFlag
  /\ _connection = None
  /\ _channel = None
  /\ _channel_manager = NoCM

\* C2: shutdown() does not raise and leaves the flag set and _connection,
\* _channel and _channel_manager absent; called on a store in that state,
\* it changes nothing of the store, the pool or the broker's objects.
C2_ShutdownIdempotent ==
  [][\A t \in Threads :
       /\ (pc[t] = "sd_flag" /\ pc'[t] = "sd_lock") => shutdownFlag'
       /\ (pc[t] = "sd_lock" /\ pc'[t] = "idle") =>
            /\ ShutDown'
            /\ loc'[t].raised = "none"
            /\ ShutDown => UNCHANGED <<storeVars, poolVars, brokerVars>>]_vars

\* Both threads have shut the store down, one after the other.
C2_Witness ==
  /\ \A t \in Workers : Finished(t, "shutdown") /\ loc[t].afterShut = (t = "t2")
  /\ ShutDown

\* C3: when shutdown() returns, no connection and no channel is open.
C3_NothingOpenAfterShutdown ==
  [][(\E t \in Threads : pc[t] = "sd_lock" /\ pc'[t] = "idle") =>
       (connOpen' = {} /\ chanOpen' = {})]_vars

\* C4: once start_consuming() has been called, a call of shutdown() or
\* stop_listener() by another thread leads to its return.
C4_StopEndsConsuming ==
  \A u \in Workers \ {Consumer} :
    (/\ pc[u] \in {"sd_flag", "sl_stop"}
     /\ loc[Consumer].op = "start_consuming"
     /\ pc[Consumer] # "idle")
    ~> (pc[Consumer] = "idle")

\* C5: a read of the connection or channel property that starts after
\* shutdown() has returned raises.
C5_RaisesAfterShutdown ==
  \A t \in Threads :
    (loc[t].afterShut /\ pc[t] = "idle" /\ loc[t].op \in {"connection", "channel"})
      => loc[t].raised # "none"

\* C6: a shutdown() called while another thread is in the retry loop of
\* _create_connection returns.
C6_ShutdownDoesNotWait ==
  \A t \in Workers :
    (/\ pc[t] = "sd_lock"
     /\ \E u \in Workers : pc[u] \in {"cc_attempt", "cc_sleep"})
    ~> (pc[t] = "idle")

\* C7: start_consuming() raises nothing to its caller: every exception of
\* its loop reaches a handler of the loop, and the call ends by returning.
C7_ConsumeNeverRaises ==
  \A t \in Threads :
    loc[t].op = "start_consuming" =>
      /\ loc[t].raised = "none"
      /\ pc[t] = "idle" => loc[t].returned

\* The loop has handled the capacity error of the channel manager, slept
\* and returned on a later stop request.
C7_Witness ==
  /\ Finished(Consumer, "start_consuming")
  /\ loc[Consumer].returned
  /\ loc[Consumer].lastExc = "RuntimeError"
  /\ loc[Consumer].sleeps >= 1

\* C8: start_consuming() returns only after a stop request (shutdown() or
\* stop_listener() setting the flag) made once the call has cleared the
\* flag.
C8_ReturnsOnlyOnStop ==
  \A t \in Threads :
    (Finished(t, "start_consuming") /\ loc[t].returned) => loc[t].stopSeen

\* The loop has gone on after an error and a sleep with the flag unset, and
\* has returned after the stop request.
C8_Witness ==
  /\ Finished(Consumer, "start_consuming")
  /\ loc[Consumer].returned
  /\ loc[Consumer].stopSeen
  /\ loc[Consumer].sleeps >= 1

\* C9: with no stop request and one failure injected by the broker, a
\* channel error, the consume loop sleeps at most once, and when it blocks
\* in the delivery wait after that sleep the callback is registered on the
\* channel it waits on.
C9_OneSleepThenDelivering ==
  (/\ \A u \in Threads \ {Consumer} : loc[u].op = "none"
   /\ loc[Consumer].op = "start_consuming"
   /\ faults = 1 /\ lastFault = "AMQPChannelError")
  => /\ loc[Consumer].sleeps <= 1
     /\ (pc[Consumer] = "sc_wait" /\ loc[Consumer].sleeps = 1)
          => Delivering(Consumer)

\* C10: send() makes at most MAX_SEND_ATTEMPTS attempts; it returns the
\* message after an attempt that succeeds, and raises the exception of the
\* last attempt once MAX_SEND_ATTEMPTS attempts have failed.
C10_SendBounded ==
  \A t \in Threads :
    loc[t].op = "send" =>
      /\ loc[t].tries <= MAX_SEND_ATTEMPTS
      /\ pc[t] = "idle" =>
           IF loc[t].returned
             THEN loc[t].raised = "none"
             ELSE /\ loc[t].tries = MAX_SEND_ATTEMPTS
                  /\ loc[t].raised # "none"
                  /\ loc[t].raised = loc[t].lastExc

\* All MAX_SEND_ATTEMPTS attempts of a send() have failed.
C10_Witness ==
  /\ Finished(Sender, "send")
  /\ ~loc[Sender].returned
  /\ loc[Sender].tries = MAX_SEND_ATTEMPTS
  /\ loc[Sender].raised # "none"

\* C11: a send() in progress ends, by returning or raising, unless the
\* broker accepts a connection in the meantime: with the broker unreachable
\* for good it raises in the end.
C11_SendTerminates ==
  (loc[Sender].op = "send" /\ pc[Sender] # "idle")
    ~> (pc[Sender] = "idle" \/ connOpen # {})

\* C12: with a finite MAX_CONNECTION_ATTEMPTS of N, the direct path of
\* _create_connection never calls amqpstorm.Connection more than N times;
\* a read of the connection property that raises has made exactly N calls,
\* all failed, and the exception is AMQPConnectionError; one that returns
\* through the direct path after f failures has made f + 1 calls and slept
\* f times, with f < N, and returns the connection of the last call.
C12_AttemptsExact ==
  \A t \in Threads :
    loc[t].op = "connection" =>
      /\ loc[t].made <= cfg.max_attempts
      /\ Finished(t, "connection") =>
           IF loc[t].raised # "none"
             THEN /\ loc[t].raised = "AMQPConnectionError"
                  /\ loc[t].made = cfg.max_attempts
                  /\ loc[t].res = None
             ELSE loc[t].made > 0 =>
                    /\ loc[t].made = loc[t].naps + 1
                    /\ loc[t].naps < cfg.max_attempts
                    /\ loc[t].res # None

\* One read has raised after N failed calls, a later one has got its
\* connection from the last allowed call, after N - 1 failures and sleeps.
C12_Witness ==
  /\ cfg.max_attempts = MaxAttempts
  /\ Finished("t1", "connection") /\ loc["t1"].raised = "AMQPConnectionError"
  /\ loc["t1"].made = MaxAttempts
  /\ Finished("t2", "connection") /\ loc["t2"].raised = "none"
  /\ loc["t2"].made = MaxAttempts /\ loc["t2"].naps = MaxAttempts - 1
  /\ loc["t2"].res = _connection

\* C13: the store holds one connection at most: every open connection is
\* the one in _connection or idle in the pool; a read of the connection
\* property that finds the held connection open returns it and creates
\* nothing; and a step of _create_connection is taken only while no
\* connection is held or the held one is closed.
C13_OneConnection ==
  [][/\ connOpen' \subseteq {_connection'} \cup SeqSet(_pools')
     /\ \A t \in Threads :
          /\ (/\ pc[t] = "cg_lock" /\ pc'[t] # "cg_lock"
              /\ _connection # None /\ _connection \in connOpen)
             => /\ pc'[t] \notin {"cc_pool", "cc_attempt", "cc_sleep"}
                /\ connOpen' = connOpen
                /\ _connection' = _connection
                /\ loc[t].op = "connection" => loc'[t].res = _connection
          /\ (pc[t] \in {"cc_pool", "cc_attempt", "cc_sleep"})
             => (_connection = None \/ _connection \notin connOpen)]_vars

\* The broker has dropped the held connection, and both threads have since
\* read the connection that replaced it.
C13_Witness ==
  /\ lastFault = "ConnectionLost"
  /\ ~Stale(_connection, connOpen)
  /\ \A t \in Workers :
       Finished(t, "connection") /\ loc[t].res = _connection

\* C14: once del store.connection has invalidated a connection, a read of
\* store.connection that returns afterwards does not return that
\* connection object.
C14_FreshAfterInvalidate ==
  [][\A t, u \in Threads :
       (/\ loc[t].op = "connection" /\ pc[t] # "idle" /\ pc'[t] = "idle"
        /\ loc'[t].raised = "none"
        /\ Finished(u, "del_connection") /\ loc[u].res # None)
       => loc'[t].res # loc[u].res]_vars

\* C15: an _acquire_channel() on a manager that has lent max_channels
\* channels and got none back raises RuntimeError, opens no channel and
\* leaves the manager, its count and its idle queue as they were.
C15_CapacityError ==
  [][\A t \in Threads :
       (/\ pc[t] = "ch_acquire" /\ pc'[t] # "ch_acquire"
        /\ _channel_manager # NoCM
        /\ _channel_manager._channel_count = MaxChannels
        /\ _channel_manager._channels = <<>>)
       => /\ loc'[t].raised = "RuntimeError" \/ loc'[t].exc = "RuntimeError"
          /\ chanOpen' = chanOpen
          /\ _channel_manager' = _channel_manager]_vars

\* A read of the channel property has met the capacity error of a manager
\* whose max_channels channels are all lent and open.
C15_Witness ==
  /\ \E t \in Threads : Finished(t, "channel") /\ loc[t].raised = "RuntimeError"
  /\ _channel_manager._channel_count = MaxChannels
  /\ _channel_manager._channels = <<>>
  /\ Cardinality(chanOpen) = MaxChannels

\* C16: when the with block of ChannelManager.get_channel() is left, by
\* the end of its body or by an exception, the borrower holds the channel
\* no more and the manager has taken it back once: appended to the idle
\* queue with the count unchanged if it is open, dropped with the count
\* one lower if it is closed.
C16_ReleasedOnExit ==
  [][\A t \in Threads :
       (/\ pc[t] = "send_pub" /\ pc'[t] # "send_pub"
        /\ loc[t].cm # 0 /\ loc[t].cm = _channel_manager.id)
       => LET h == loc[t].ch
              m == _channel_manager
              n == _channel_manager'
          IN /\ loc'[t].ch = 0
             /\ h \notin SeqSet(m._channels)
             /\ IF h \in chanOpen'
                  THEN /\ n._channels = Append(m._channels, h)
                       /\ n._channel_count = m._channel_count
                  ELSE /\ n._channels = m._channels
                       /\ n._channel_count = m._channel_count - 1]_vars

\* The publish inside the with block has raised with the channel still
\* open, and the channel is back at the end of the idle queue.
C16_Witness ==
  /\ pc[Sender] = "send_except" /\ loc[Sender].exc = "Exception"
  /\ _channel_manager # NoCM
  /\ _channel_manager._channels # <<>>
  /\ _channel_manager._channels[Len(_channel_manager._channels)] \in chanOpen
  /\ _channel_manager._channel_count > Len(_channel_manager._channels)

\* Channels the manager counts that are not in its idle queue.
Outstanding(m) == m._channel_count - Len(m._channels)

\* C17: in channel-manager mode, with one thread using the store, no
\* channel is outstanding before a with block of get_channel(), and none
\* is once the block is left.
C17_NothingOutstanding ==
  (/\ cfg.cm
   /\ \A u \in Threads \ {Sender} : loc[u].op = "none"
   /\ pc[Sender] \in {"idle", "send_try", "send_except"})
  => Outstanding(_channel_manager) = 0

\* The threads that hold channel h, and its places in the idle queue q.
Borrowers(h) == {t \in Threads : loc[t].ch = h}
IdlePlaces(q, h) == {i \in 1..Len(q) : q[i] = h}

\* C18: in channel-manager mode a channel is in the idle queue once, or
\* with one borrower, never both and never with two borrowers.
C18_ChannelExclusive ==
  cfg.cm =>
    \A h \in ChanIds :
      Cardinality(Borrowers(h))
        + Cardinality(IdlePlaces(_channel_manager._channels, h)) <= 1

\* Both threads are inside their with blocks, each with a channel of the
\* same manager, which has lent all it may.
C18_Witness ==
  /\ cfg.cm
  /\ \A t \in Workers :
       /\ pc[t] = "send_pub"
       /\ loc[t].cm = _channel_manager.id /\ loc[t].cm # 0
       /\ loc[t].ch \in chanOpen
  /\ loc["t1"].ch # loc["t2"].ch
  /\ _channel_manager._channel_count = MaxChannels

\* C19: at most one ConnectionPool object is ever made, and every call of
\* ConnectionPool() returns it.
C19_Singleton ==
  /\ ConnectionPool.objects <= 1
  /\ \A t \in Threads :
       Finished(t, "ConnectionPool") =>
         /\ loc[t].inst # None
         /\ loc[t].inst = ConnectionPool._instance

\* All threads found no instance at their first test, and all have
\* returned from the constructor.
C19_Witness ==
  /\ \A t \in Threads : Finished(t, "ConnectionPool") /\ loc[t].first
  /\ \A t, u \in Threads : loc[t].inst = loc[u].inst
  /\ ConnectionPool.objects = 1

\* A call of ConnectionPool.get_connection by thread t ends in this step.
PoolCall(t) == cfg.pool /\ pc[t] = "cc_pool" /\ pc'[t] # "cc_pool"

\* C20 as stated: a get_connection() that starts with the count at the cap
\* and no open connection in the idle queue raises the capacity error and
\* opens no connection, and the count never exceeds the cap.
C20_CapAsStated ==
  [][/\ _connection_counts' <= PoolMaxConnections
     /\ \A t \in Threads :
          (/\ PoolCall(t)
           /\ _connection_counts >= PoolMaxConnections
           /\ SeqSet(_pools) \cap connOpen = {})
          => /\ loc'[t].poolExc = "RuntimeError"
             /\ connOpen' = connOpen]_vars

\* C20, amended: the closed connections of the idle queue are discarded
\* and counted out first; a get_connection() that then has the count at
\* the cap and found no open connection in the queue raises the capacity
\* error, opens no connection and leaves the count there; the count never
\* exceeds the cap.
C20_CapAfterDiscard ==
  [][/\ _connection_counts' <= PoolMaxConnections
     /\ \A t \in Threads :
          LET s == PoolScan(_pools, _connection_counts, connOpen)
          IN (/\ PoolCall(t)
              /\ s.conn = None
              /\ s.n >= PoolMaxConnections)
             => /\ loc'[t].poolExc = "RuntimeError"
                /\ connOpen' = connOpen
                /\ _connection_counts' = s.n
                /\ _pools' = <<>>]_vars

\* The pool has refused a connection at the cap, and the store goes on to
\* the direct path with nothing opened.
C20_Witness ==
  /\ \E t \in Threads : pc[t] = "cc_attempt" /\ loc[t].poolExc = "RuntimeError"
  /\ _connection_counts = PoolMaxConnections
  /\ _pools = <<>>
  /\ faults = 1

\* C21: when the shared pool is at capacity for the store's endpoint key,
\* the store's attempt to obtain a connection reports the capacity error
\* to the caller and opens no connection outside the pool.
C21_CapacityReported ==
  [][\A t \in Threads :
       (/\ pc[t] = "cc_attempt"
        /\ pc'[t] # "cc_attempt"
        /\ loc[t].poolExc = "RuntimeError")
       => /\ connOpen' \subseteq connOpen
          /\ loc'[t].raised = "RuntimeError"]_vars

\* The four fields of the pool key, with the defaults of a missing field.
KeyField(p, k) ==
  IF p[k] # Absent THEN p[k]
  ELSE CASE k = "hostname" -> PyStr("localhost")
         [] k = "port" -> PyInt(5672)
         [] k = "username" -> PyStr("guest")
         [] k = "virtual_host" -> PyStr("/")

SameEndpoint(p, q) ==
  \A k \in {"hostname", "port", "username", "virtual_host"} :
    KeyField(p, k) = KeyField(q, k)

\* C22: two parameter sets get the same pool key if and only if they agree
\* on hostname, port, username and virtual_host with the defaults applied;
\* the password and the other parameters never change the key.
C22_KeyOfEndpoint ==
  \A t, u \in Workers :
    (Finished(t, "_get_pool_key") /\ Finished(u, "_get_pool_key")) =>
      ((loc[t].key = loc[u].key) <=> SameEndpoint(loc[t].params, loc[u].params))

\* One caller names the default endpoint in full, with a password and a
\* heartbeat; the other leaves everything out; they get the same key.
C22_Witness ==
  /\ Finished("t1", "_get_pool_key") /\ Finished("t2", "_get_pool_key")
  /\ loc["t1"].params = [hostname |-> PyStr("localhost"), port |-> PyInt(5672),
                         username |-> PyStr("guest"),
                         virtual_host |-> PyStr("/"),
                         password |-> PyStr("secret"),
                         heartbeat |-> PyInt(60)]
  /\ loc["t2"].params = [k \in DOMAIN loc["t2"].params |-> Absent]
  /\ loc["t1"].key = loc["t2"].key
  /\ loc["t1"].key =
       "[('hostname', 'localhost'), ('port', 5672), ('username', 'guest'), ('virtual_host', '/')]"

\* C23: declare_queue first issues a passive declare; if that succeeds no
\* active declare is issued; if it fails with a channel error of code 404,
\* an active declare is issued on a usable channel and its result is
\* returned; a channel error of another code reaches the caller with no
\* active declare issued.
C23_DeclareQueue ==
  [][\A t \in Workers :
       /\ (pc[t] = "dq_passive" /\ pc'[t] = "idle")
            => /\ loc'[t].active = loc[t].active
               /\ loc'[t].returned \/ loc'[t].raised # "none"
       /\ (pc[t] = "dq_passive" /\ pc'[t] = "dq_active")
            => loc'[t].code = NOT_FOUND
       /\ (pc[t] = "dq_active" /\ pc'[t] # "dq_active")
            => /\ loc[t].ch \in chanOpen
               /\ pc'[t] = "idle"
               /\ loc'[t].returned
               /\ loc'[t].active = loc[t].active + 1]_vars

\* C24: create_channel(name) returns the channel kept under the name while
\* that channel is open; once it has been closed, the next call returns a
\* new open channel registered under the same name; a failed creation is
\* tried up to 3 times before the failure reaches the caller.
C24_NamedChannel ==
  [][\A t \in Workers :
       LET n == loc[t].name
       IN /\ (pc[t] = "nc_check" /\ pc'[t] # "nc_check")
               => IF named[n] # None /\ named[n] \in chanOpen
                    THEN /\ pc'[t] = "idle" /\ loc'[t].returned
                         /\ loc'[t].ch = named[n]
                         /\ named' = named /\ chanOpen' = chanOpen
                    ELSE pc'[t] = "nc_attempt"
          /\ (pc[t] = "nc_attempt" /\ pc'[t] = "idle" /\ loc'[t].returned)
               => /\ loc'[t].ch \notin chanOpen
                  /\ loc'[t].ch \in chanOpen'
                  /\ loc'[t].ch # named[n]
                  /\ named' = [named EXCEPT ![n] = loc'[t].ch]
                  /\ loc'[t].tries <= 3
          /\ (pc[t] = "nc_attempt" /\ pc'[t] = "idle" /\ ~loc'[t].returned)
               => loc'[t].raised # "none" /\ loc'[t].tries = 3
          /\ (pc[t] = "nc_attempt" /\ pc'[t] = "nc_sleep")
               => loc'[t].tries < 3]_vars

\* One caller got the channel of a name, the channel was closed, and the
\* other caller got a new open channel under the same name on the third
\* attempt.
C24_Witness ==
  /\ Finished("t1", "create_channel") /\ Finished("t2", "create_channel")
  /\ loc["t1"].name = loc["t2"].name
  /\ loc["t1"].returned /\ loc["t2"].returned
  /\ loc["t1"].ch # loc["t2"].ch
  /\ loc["t1"].ch \notin chanOpen
  /\ named[loc["t2"].name] = loc["t2"].ch
  /\ loc["t2"].ch \in chanOpen
  /\ loc["t2"].tries = 3

\* C25: within one iteration of the consume loop, QoS is set, the consumer
\* callback registered and the delivery wait made on one and the same
\* channel, in channel-manager mode as in single-channel mode.
C25_OneChannelPerIteration ==
  \A t \in Threads :
    (loc[t].op = "start_consuming" /\ pc[t] \in {"sc_consume", "sc_wait"})
      => loc[t].ch = loc[t].prev

\* C26: within one start_consuming() call the sleep after the k-th handled
\* failure, whatever its kind, lasts min(RECONNECTION_DELAY * 2^(k-1),
\* MAX_CONNECTION_DELAY) seconds: 1, 2, 4, 8, 16, 32, 32, ...; the delay
\* never exceeds the cap nor goes below the base.
C26_ConsumeBackoff ==
  \A t \in Threads :
    /\ pc[t] = "sc_sleep"
         => loc[t].cdelay = Min(RECONNECTION_DELAY * 2^(loc[t].sleeps),
                                MAX_CONNECTION_DELAY)
    /\ (loc[t].op = "start_consuming" /\ pc[t] # "sc_clear")
         => /\ loc[t].cdelay >= RECONNECTION_DELAY
            /\ loc[t].cdelay <= MAX_CONNECTION_DELAY

\* The consume loop is about to sleep for the seventh time, with the
\* delay at the cap.
C26_Witness ==
  /\ pc[Consumer] = "sc_sleep"
  /\ loc[Consumer].sleeps = 6
  /\ loc[Consumer].cdelay = MAX_CONNECTION_DELAY

C28_CreateBackoff ==
  \A t \in Threads :
    (cfg.max_attempts # Infinity /\ pc[t] \in {"cc_attempt", "cc_sleep"})
      => loc[t].delay = Min(RECONNECTION_DELAY * 2^(loc[t].naps),
                            MAX_CONNECTION_DELAY)

\* One invocation has failed seven times and raised, its last sleep at the
\* cap; the next invocation is about to sleep for the first time, for the
\* base delay.
C28_Witness ==
  /\ cfg.max_attempts = 7
  /\ Finished("t1", "connection") /\ loc["t1"].raised = "AMQPConnectionError"
  /\ loc["t1"].naps = 7
  /\ pc["t2"] = "cc_sleep"
  /\ loc["t2"].naps = 0
  /\ loc["t2"].delay = RECONNECTION_DELAY

\* A call of method o of the manager by thread t is this step.
ManagerCall(t, o) == loc[t].op = "none" /\ loc'[t].op = o

\* C29: _release_channel never raises; an open channel goes to the end of
\* the idle queue with the count unchanged, or is closed and counted out
\* when the queue already holds max_channels; a closed channel is counted
\* out, by exactly one, and does not go to the queue.
C29_ReleaseEffects ==
  [][\A t \in Workers :
       ManagerCall(t, "_release_channel") =>
         LET h == loc'[t].ch
             m == _channel_manager
             n == _channel_manager'
         IN /\ loc'[t].raised = "none"
            /\ IF h \in chanOpen
                 THEN IF Len(m._channels) < MaxChannels
                        THEN /\ n._channels = Append(m._channels, h)
                             /\ n._channel_count = m._channel_count
                             /\ chanOpen' = chanOpen
                        ELSE /\ n._channels = m._channels
                             /\ n._channel_count = m._channel_count - 1
                             /\ chanOpen' = chanOpen \ {h}
                 ELSE /\ n._channels = m._channels
                      /\ n._channel_count = m._channel_count - 1
                      /\ chanOpen' = chanOpen]_vars

\* One caller has released a closed channel and the other an open one into
\* a queue that was full: the queue is as it was and the count two lower.
C29_Witness ==
  /\ \A t \in Workers : loc[t].op = "_release_channel"
  /\ loc["t1"].ch # loc["t2"].ch
  /\ Len(_channel_manager._channels) = MaxChannels
  /\ _channel_manager._channel_count = MaxChannels - 2
  /\ chanOpen = SeqSet(_channel_manager._channels)

\* The place of the first open channel of the idle queue q, or 0.
FirstOpen(q, open) ==
  IF \E i \in 1..Len(q) : q[i] \in open
    THEN CHOOSE i \in 1..Len(q) :
           q[i] \in open /\ \A j \in 1..(i - 1) : q[j] \notin open
    ELSE 0

\* C30: _acquire_channel never hands out a channel it found closed; when
\* the idle queue holds an open channel it returns the first of them and
\* creates none; every closed channel met on the way leaves the queue and
\* lowers the count by one, before any channel is created.
C30_AcquireEvicts ==
  [][\A t \in Workers :
       ManagerCall(t, "_acquire_channel") =>
         LET h == loc'[t].ch
             m == _channel_manager
             n == _channel_manager'
             q == m._channels
             i == FirstOpen(q, chanOpen)
         IN /\ h # None => h \in chanOpen'
            /\ (h # None) = (loc'[t].raised = "none")
            /\ IF i # 0
                 THEN /\ h = q[i]
                      /\ chanOpen' = chanOpen
                      /\ n._channels = SubSeq(q, i + 1, Len(q))
                      /\ n._channel_count = m._channel_count - (i - 1)
                 ELSE /\ n._channels = <<>>
                      /\ IF h # None
                           THEN /\ h \notin chanOpen
                                /\ chanOpen' = chanOpen \cup {h}
                                /\ m._channel_count - Len(q) < MaxChannels
                                /\ n._channel_count = m._channel_count - Len(q) + 1
                           ELSE /\ chanOpen' = chanOpen
                                /\ n._channel_count = m._channel_count - Len(q)]_vars

\* One caller was handed the open channel that stood behind two closed
\* ones in the idle queue; the other then found the queue empty and had a
\* new channel created.
C30_Witness ==
  /\ \A t \in Workers : loc[t].op = "_acquire_channel" /\ loc[t].raised = "none"
  /\ loc["t1"].ch = 3
  /\ 1 \notin chanOpen /\ 2 \notin chanOpen
  /\ loc["t2"].ch \notin {1, 2, 3}
  /\ chanOpen = {3, loc["t2"].ch}
  /\ _channel_manager._channels = <<>>
  /\ _channel_manager._channel_count = 2

\* C31: in channel-manager mode, a call that gets its channel through the
\* store while the manager's connection is closed does not raise to its
\* caller: the connection is rebuilt and an open channel is handed out.
C31_AcquireRebuilds ==
  [][\A t \in Threads :
       (/\ pc[t] = "dq_get"
        /\ cfg.cm
        /\ _channel_manager # NoCM
        /\ _channel_manager.connection \notin connOpen
        /\ pc'[t] # "dq_get")
       => /\ loc'[t].raised = "none"
          /\ loc'[t].ch \in chanOpen']_vars

\* A call of ConnectionPool.return_connection by thread t, made directly,
\* is this step; Returned is the connection it is given.
ReturnCall(t) ==
  loc[t].op # "return_connection" /\ loc'[t].op = "return_connection"

C33_NoLockWhileBlocking ==
  \A t \in Threads :
    pc[t] \in {"cc_pool", "cc_attempt", "cc_sleep"} => lock # t

\* C34: the manager never holds more idle channels than it counts, nor
\* counts more than max_channels, and the channels counted and not idle
\* are those lent out: from a state where this is so, an
\* _acquire_channel() that returns adds one to them, one that raises adds
\* none, a _release_channel() of a channel lent out takes one off, and
\* cleanup() leaves their number as it is, whether its calls fail or not.
C34_ManagerBookkeeping ==
  [][\A t \in Threads :
       LET m == _channel_manager
           n == _channel_manager'
           change == CASE ManagerCall(t, "_acquire_channel") ->
                            IF loc'[t].ch # None THEN 1 ELSE 0
                       [] ManagerCall(t, "_release_channel") -> -1
                       [] OTHER -> 0
       IN (/\ \E o \in {"_acquire_channel", "_release_channel", "cleanup"} :
                ManagerCall(t, o)
           /\ Outstanding(m) >= 0
           /\ ManagerCall(t, "_release_channel") => Outstanding(m) > 0
           /\ m._channel_count <= MaxChannels)
          => /\ Outstanding(n) = Outstanding(m) + change
             /\ n._channel_count <= MaxChannels]_vars

\* C35: the pool never holds more idle connections of the store's key than
\* it counts for the key, and never counts more than max_connections, so
\* that the active connections it reports are not negative.
C35_PoolBookkeeping ==
  /\ 0 <= Len(_pools)
  /\ Len(_pools) <= _connection_counts
  /\ _connection_counts <= PoolMaxConnections

\* C36: in channel-manager mode, while a consume loop is the only user of
\* the store's channels, the manager has at most one channel outstanding
\* and its count stays below max_channels.
C36_LoopHoldsOneChannel ==
  (cfg.cm /\ loc[Consumer].op = "start_consuming")
    => /\ Outstanding(_channel_manager) <= 1
       /\ _channel_manager._channel_count < MaxChannels

\* C37: once shutdown() has run to completion while the consume loop was
\* between its loop condition and the first channel of the iteration, the
\* loop opens no connection and no channel.
C37_NoReopenAfterShutdown ==
  [][(/\ loc[Consumer].op = "start_consuming"
      /\ loc[Consumer].ret = "sc_qos"
      /\ shutdownFlag
      /\ \E u \in Workers : Finished(u, "shutdown"))
     => /\ connOpen' \subseteq connOpen
        /\ chanOpen' \subseteq chanOpen]_vars

\* C38: a connection that is idle in the pool's queue, where the next
\* get_connection() of any store finds it, is used by no thread: no thread
\* holds an open channel of it for the call it is making.
C38_LentExclusively ==
  \A t \in Threads :
    (loc[t].ch # None /\ loc[t].ch \in chanOpen)
      => chanConn[loc[t].ch] \notin SeqSet(_pools)

\* C39: a connection that get_connection() hands to a caller was opened
\* for a caller with the same password.
C39_SamePassword ==
  \A t, u \in Threads :
    (/\ loc[t].key # "" /\ loc[t].res # None
     /\ loc[u].key # "" /\ loc[u].made = 1
     /\ loc[u].res = loc[t].res)
    => loc[t].params.password = loc[u].params.password

\* C40: the step that sets up the instance's queues and counts (lines
\* 39-44) changes no queue and no count that a caller has used.
C40_InitialisedOnce ==
  [][\A t \in Threads :
       (pc[t] = "pn_setup" /\ pc'[t] = "idle")
       => /\ _pools' = _pools
          /\ _connection_counts' = _connection_counts]_vars

====
